---- MODULE Spec2Model ----
(***************************************************************************)
(* Model of the mnoga internationalization library: BCP-47 language tag    *)
(* parsing (LanguageTag), locale resolution (lookupLocale), phrase lookup  *)
(* (lookupPhrase), phrase merging (mergePhrases) and the Mnoga class.      *)
(*                                                                         *)
(* JavaScript strings are modelled as sequences of one-character strings,  *)
(* so that the regular expressions of the source are modelled by what they *)
(* match, character by character.                                          *)
(***************************************************************************)
EXTENDS Integers, Sequences, FiniteSets, TLC

VARIABLES
    pc,                 \* position of the running call: "start", "done"; Mnoga: the last method called
    preferredLocales,   \* lookupLocale argument: sequence of raw locale strings
    supportedLocales,   \* lookupLocale argument: sequence of raw locale strings
    aliases,            \* lookupLocale argument: sequence of <<key, value>> pairs
    locals,             \* lookupLocale locals once the call has run
    localeResult,       \* what the lookupLocale call produced
    options,            \* lookupPhrase argument: data, key, locales, phrases, rules
    loopIndex,          \* lookupPhrase: the loop variable i over options.locales (from 1)
    currentLocale,      \* lookupPhrase: the local locale of the last iteration
    currentPhrase,      \* lookupPhrase: the local phrase at the end of the last iteration
    pluralContext,      \* lookupPhrase: the plural context of the last iteration
    phraseResult,       \* what the lookupPhrase call produced
    tagInput,           \* LanguageTag: the string passed to the constructor
    tagParsed,          \* LanguageTag: the tag constructed from tagInput
    tagReparsed,        \* LanguageTag: the tag constructed from the canonical string
    tagChain,           \* getFallbackPattern(tagInput)
    mergeSource,        \* mergePhrases argument phrases
    mergeBefore,        \* mergePhrases arguments targets and phrases as they were passed
    mergeTargets,       \* mergePhrases argument targets, mutated by the call
    objectPrototype,    \* the properties Object.prototype has been given
    mergeThrew,         \* whether the mergePhrases call threw
    thisAliases,        \* Mnoga: this.aliases, <<alias, locale>> pairs in insertion order
    thisFallback,       \* Mnoga: this.fallback
    thisKeyMode,        \* Mnoga: this.keyMode
    thisLocale,         \* Mnoga: this.locale
    thisPhrases,        \* Mnoga: this.phrases, <<locale, phrases>> pairs in insertion order
    thisRules,          \* Mnoga: this.rules, <<locale, rule>> pairs in insertion order
    subscribers,        \* Mnoga: this.subscribers, the handlers in the order subscribed
    invocations,        \* Mnoga: how often the last call invoked each entry of subscribers
    unsubscribes,       \* Mnoga: the handlers whose Unsubscribe function subscribe has returned
    arguments,          \* Mnoga: the arguments of the last call
    lastThrew,          \* Mnoga: whether the last call threw
    calls,              \* Mnoga: the number of calls made, subscribe apart
    ruleArgument,       \* the number a plural rule is called with
    ruleResult          \* the category the plural rule returned

localeVars == <<preferredLocales, supportedLocales, aliases, locals, localeResult>>
phraseVars == <<options, loopIndex, currentLocale, currentPhrase, pluralContext, phraseResult>>
tagVars == <<tagInput, tagParsed, tagReparsed, tagChain>>
mergeVars == <<mergeSource, mergeBefore, mergeTargets, objectPrototype, mergeThrew>>
storedVars == <<thisAliases, thisFallback, thisKeyMode, thisLocale, thisPhrases, thisRules>>
mnogaVars == <<storedVars, subscribers, invocations, unsubscribes, arguments, lastThrew, calls>>
ruleVars == <<ruleArgument, ruleResult>>
vars == <<pc, localeVars, phraseVars, tagVars, mergeVars, mnogaVars, ruleVars>>

\* The variables a call of each kind leaves alone
exceptLocale == <<phraseVars, tagVars, mergeVars, mnogaVars, ruleVars>>
exceptPhrase == <<localeVars, tagVars, mergeVars, mnogaVars, ruleVars>>
exceptTag == <<localeVars, phraseVars, mergeVars, mnogaVars, ruleVars>>
exceptMerge == <<localeVars, phraseVars, tagVars, mnogaVars, ruleVars>>
exceptMnoga == <<localeVars, phraseVars, tagVars, mergeVars, ruleVars>>
exceptRule == <<localeVars, phraseVars, tagVars, mergeVars, mnogaVars>>

-----------------------------------------------------------------------------
(* Characters and strings *)

LowerSeq == <<"a","b","c","d","e","f","g","h","i","j","k","l","m",
              "n","o","p","q","r","s","t","u","v","w","x","y","z">>
UpperSeq == <<"A","B","C","D","E","F","G","H","I","J","K","L","M",
              "N","O","P","Q","R","S","T","U","V","W","X","Y","Z">>
DigitSeq == <<"0","1","2","3","4","5","6","7","8","9">>

Range(f) == {f[i] : i \in DOMAIN f}

LowerChars == Range(LowerSeq)
UpperChars == Range(UpperSeq)
DigitChars == Range(DigitSeq)
LetterChars == LowerChars \cup UpperChars

\* The JavaScript value undefined, kept apart from every string.
Undefined == <<"undefined">>

toLowerCaseChar(c) ==
    IF c \in UpperChars
    THEN LowerSeq[CHOOSE i \in DOMAIN UpperSeq : UpperSeq[i] = c]
    ELSE c

toUpperCaseChar(c) ==
    IF c \in LowerChars
    THEN UpperSeq[CHOOSE i \in DOMAIN LowerSeq : LowerSeq[i] = c]
    ELSE c

toLowerCase(s) == [i \in 1..Len(s) |-> toLowerCaseChar(s[i])]
toUpperCase(s) == [i \in 1..Len(s) |-> toUpperCaseChar(s[i])]

\* Mutation of titleCase: the script keeps the case it was given in
titleCase_AsGiven(s) == s

\* s.toLowerCase().replace(/^[a-z]/, (c) => c.toUpperCase())
titleCase(s) ==
    [i \in 1..Len(s) |-> IF i = 1 THEN toUpperCaseChar(toLowerCaseChar(s[i]))
                                  ELSE toLowerCaseChar(s[i])]

\* n characters of s starting at position p (1-based) all belong to class
CharsAt(s, p, n, class) ==
    /\ p + n - 1 <= Len(s)
    /\ \A i \in p..(p + n - 1) : s[i] \in class

-----------------------------------------------------------------------------
(* LanguageTag: the regular expression IETF_LANGUAGE and the constructor *)

\* The character class [[A-Za-z] of the second alternative of IETF_LANG_TAG:
\* the regular expression is written /...|[[A-Za-z]{4,8}]/, whose class holds
\* "[" and the letters, and whose final "]" is a literal character.
LangClassB == LetterChars \cup {"["}

\* (?:-[A-Za-z]{3}){1,3}: the largest number of extended subtags at offset e
ExtlangMax(s, e) ==
    LET ok(j) == /\ e + 4 * j <= Len(s)
                 /\ s[e + 4 * (j - 1) + 1] = "-"
                 /\ CharsAt(s, e + 4 * (j - 1) + 2, 3, LetterChars)
    IN  IF ok(1) /\ ok(2) /\ ok(3) THEN 3
        ELSE IF ok(1) /\ ok(2) THEN 2
        ELSE IF ok(1) THEN 1
        ELSE 0

\* The ends of group 1 that the first alternative can reach with n leading
\* letters, in the order a backtracking matcher tries them (greedy first).
LangEndsUpTo(n, km) == [j \in 1..(km + 1) |-> n + 4 * (km + 1 - j)]

LangEndsFrom(s, n) == LangEndsUpTo(n, ExtlangMax(s, n))

\* [A-Za-z]{2,3}(?:(?:-[A-Za-z]{3}){1,3})?
LangEndsA(s) ==
    (IF CharsAt(s, 1, 3, LetterChars) THEN LangEndsFrom(s, 3) ELSE <<>>)
    \o (IF CharsAt(s, 1, 2, LetterChars) THEN LangEndsFrom(s, 2) ELSE <<>>)

\* [[A-Za-z]{4,8}]
LangEndsAfter(ms) == [j \in 1..Len(ms) |-> ms[j] + 1]

LangEndsB(s) ==
    LET ok(m) == /\ CharsAt(s, 1, m, LangClassB)
                 /\ m + 1 <= Len(s)
                 /\ s[m + 1] = "]"
    IN  LangEndsAfter(SelectSeq(<<8, 7, 6, 5, 4>>, ok))

\* IETF_LANG_TAG: every end of group 1, first alternative first
IETF_LANG_TAG(s) == LangEndsA(s) \o LangEndsB(s)

\* IETF_SCRIPT_TAG preceded by its hyphen, at offset e
IETF_SCRIPT_TAG(s, e) ==
    /\ e + 1 <= Len(s)
    /\ s[e + 1] = "-"
    /\ CharsAt(s, e + 2, 4, LetterChars)

\* IETF_REGION_TAG preceded by its hyphen, at offset p; n is 2 (letters) or 3 (digits)
IETF_REGION_TAG(s, p, n) ==
    /\ p + 1 <= Len(s)
    /\ s[p + 1] = "-"
    /\ IF n = 2 THEN CharsAt(s, p + 2, 2, LetterChars)
                ELSE CharsAt(s, p + 2, 3, DigitChars)

\* (?:-|$) at offset q
TagEnd(s, q) == q = Len(s) \/ (q < Len(s) /\ s[q + 1] = "-")

\* The ways to match the optional script and region, as <<script length,
\* region length>>, in the order a backtracking matcher tries them.
TailOrder == << <<4, 2>>, <<4, 3>>, <<4, 0>>, <<0, 2>>, <<0, 3>>, <<0, 0>> >>

\* The offset at which the region starts, and the one at which the match ends
RegionStart(e, o) == IF o[1] = 4 THEN e + 5 ELSE e
MatchEnd(e, o) == IF o[2] = 0 THEN RegionStart(e, o) ELSE RegionStart(e, o) + 1 + o[2]

TailMatches(s, e, o) ==
    /\ o[1] = 4 => IETF_SCRIPT_TAG(s, e)
    /\ o[2] # 0 => IETF_REGION_TAG(s, RegionStart(e, o), o[2])
    /\ TagEnd(s, MatchEnd(e, o))

\* The tails that match after a group 1 ending at e, in matching order
Tails(s, e) == SelectSeq(TailOrder, LAMBDA o : TailMatches(s, e, o))

\* The captured groups of the match whose group 1 ends at e with tail o
Groups(s, e, o) ==
    [matched |-> TRUE,
     m1 |-> SubSeq(s, 1, e),
     m2 |-> IF o[1] = 4 THEN SubSeq(s, e + 2, e + 5) ELSE Undefined,
     m3 |-> IF o[2] # 0
            THEN SubSeq(s, RegionStart(e, o) + 2, RegionStart(e, o) + 1 + o[2])
            ELSE Undefined]

GroupsAt(s, e) == Groups(s, e, Head(Tails(s, e)))

FirstMatch(s, ends) ==
    IF ends = <<>>
    THEN [matched |-> FALSE, m1 |-> Undefined, m2 |-> Undefined, m3 |-> Undefined]
    ELSE GroupsAt(s, Head(ends))

\* IETF_LANGUAGE.exec(s): null, or the three captured groups
IETF_LANGUAGE(s) ==
    FirstMatch(s, SelectSeq(IETF_LANG_TAG(s), LAMBDA e : Tails(s, e) # <<>>))

\* new LanguageTag(languageTag); valid = FALSE stands for the thrown Error
\* Mutation of TagFields: the region is written before the script
TagFields_RegionFirst(language, script, region) ==
    [valid |-> TRUE, language |-> language, script |-> script, region |-> region,
     normalizedString |->
         language
         \o (IF region # Undefined THEN <<"-">> \o region ELSE <<>>)
         \o (IF script # Undefined THEN <<"-">> \o script ELSE <<>>)]

\* The fields set by the constructor from the groups of the match
TagFields(language, script, region) ==
    [valid |-> TRUE, language |-> language, script |-> script, region |-> region,
     normalizedString |->
         language
         \o (IF script # Undefined THEN <<"-">> \o script ELSE <<>>)
         \o (IF region # Undefined THEN <<"-">> \o region ELSE <<>>)]

LanguageTagOf(matches) ==
    IF ~matches.matched
    THEN [valid |-> FALSE, language |-> Undefined, script |-> Undefined,
          region |-> Undefined, normalizedString |-> Undefined]
    ELSE TagFields(toLowerCase(matches.m1),
                   IF matches.m2 # Undefined THEN titleCase(matches.m2) ELSE Undefined,
                   IF matches.m3 # Undefined THEN toUpperCase(matches.m3) ELSE Undefined)

LanguageTag(languageTag) == LanguageTagOf(IETF_LANGUAGE(languageTag))

hasRegion(tag) == tag.region # Undefined
hasScript(tag) == tag.script # Undefined

\* Whether constructing a LanguageTag from the string throws
Throws(locale) == ~LanguageTag(locale).valid

-----------------------------------------------------------------------------
(* i18n.ts: canonicalization and fallback chains *)

getCanonicalLocale(locale) == LanguageTag(locale).normalizedString

getCanonicalLocales(locales) == [i \in 1..Len(locales) |-> getCanonicalLocale(locales[i])]

\* Mutation of FallbackPatternOf: the language-script entry is left out
FallbackPatternOf_NoScriptEntry(languageTag) ==
    <<languageTag.normalizedString>>
    \o (IF languageTag.language # languageTag.normalizedString
        THEN <<languageTag.language>>
        ELSE <<>>)

\* The pattern built from the parsed tag (lines 222-231)
FallbackPatternOf(languageTag) ==
    <<languageTag.normalizedString>>
    \o (IF hasRegion(languageTag) /\ hasScript(languageTag)
        THEN <<languageTag.language \o <<"-">> \o languageTag.script>>
        ELSE <<>>)
    \o (IF languageTag.language # languageTag.normalizedString
        THEN <<languageTag.language>>
        ELSE <<>>)

getFallbackPattern(locale) == FallbackPatternOf(LanguageTag(locale))

-----------------------------------------------------------------------------
(* String.prototype.search with a string argument: the argument is compiled *)
(* with new RegExp(s), so "[" opens a character class closed by the next    *)
(* "]"; every other character of a canonical locale stands for itself.      *)

RECURSIVE RegExpOf(_)
RegExpOf(p) ==
    IF p = <<>> THEN <<>>
    ELSE IF Head(p) = "[" /\ \E i \in 2..Len(p) : p[i] = "]"
    THEN LET close == CHOOSE i \in 2..Len(p) :
                          p[i] = "]" /\ \A j \in 2..(i - 1) : p[j] # "]"
         IN  <<{p[j] : j \in 2..(close - 1)}>> \o RegExpOf(SubSeq(p, close + 1, Len(p)))
    ELSE <<{Head(p)}>> \o RegExpOf(Tail(p))

\* str.search(pattern): the 0-based index of the first match, or -1
\* Whether the compiled expression re matches str at position i (1-based)
MatchesAt(str, re, i) ==
    /\ i + Len(re) - 1 <= Len(str)
    /\ \A j \in 1..Len(re) : str[i + j - 1] \in re[j]

FirstHit(hits) ==
    IF hits = {} THEN -1 ELSE (CHOOSE i \in hits : \A k \in hits : i <= k) - 1

searchRegExp(str, re) == FirstHit({i \in 1..(Len(str) + 1) : MatchesAt(str, re, i)})

search(str, pattern) == searchRegExp(str, RegExpOf(pattern))

-----------------------------------------------------------------------------
(* i18n.ts: lookupLocale *)

\* The alias pairs whose value is a string (typeof value === 'string')
StringAliases(als) == SelectSeq(als, LAMBDA a : a[2] # Undefined)

\* normalizedAliases: canonical key -> canonical value, a later pair with the
\* same canonical key overwriting an earlier one
\* The alias pairs with both sides canonicalized
CanonicalPairs(sa) ==
    [i \in 1..Len(sa) |-> <<getCanonicalLocale(sa[i][1]), getCanonicalLocale(sa[i][2])>>]

\* The object built by assigning the pairs in order
ObjectOfPairs(cp) ==
    [k \in {cp[i][1] : i \in DOMAIN cp} |->
        cp[CHOOSE i \in DOMAIN cp :
               cp[i][1] = k /\ \A j \in DOMAIN cp : cp[j][1] = k => j <= i][2]]

NormalizeAliases(als) == ObjectOfPairs(CanonicalPairs(StringAliases(als)))

\* normalizedPreferredlocales[i + 1] || ''
NextLocaleOf(normalized, i) ==
    IF i + 1 <= Len(normalized) THEN normalized[i + 1] ELSE <<>>

\* Mutation of FallbacksOfEntry: the next preferred locale is not looked at
FallbacksOfEntry_IgnoreNext(normalized, i) ==
    SelectSeq(getFallbackPattern(normalized[i]), LAMBDA s : s \notin Range(normalized))

\* The fallbacks pushed after normalizedPreferredlocales[i] (lines 180-181)
FallbacksOfEntry(normalized, i) ==
    SelectSeq(getFallbackPattern(normalized[i]),
              LAMBDA s : /\ s \notin Range(normalized)
                         /\ search(NextLocaleOf(normalized, i), s) = -1)

\* The loop of lines 172-184, from entry i on
RECURSIVE PossibleFrom(_, _)
PossibleFrom(normalized, i) ==
    IF i > Len(normalized) THEN <<>>
    ELSE <<normalized[i]>> \o FallbacksOfEntry(normalized, i)
         \o PossibleFrom(normalized, i + 1)

\* Mutation of SwapAlias: the alias of an alias is followed
SwapAlias_Chased(normalizedAliases, l) ==
    IF l \in DOMAIN normalizedAliases
    THEN IF normalizedAliases[l] \in DOMAIN normalizedAliases
         THEN normalizedAliases[normalizedAliases[l]]
         ELSE normalizedAliases[l]
    ELSE l

\* .map(alias swap) of lines 189-192
SwapAlias(normalizedAliases, l) ==
    IF l \in DOMAIN normalizedAliases THEN normalizedAliases[l] ELSE l

\* Mutation of MatchedLocales: the filter on the supported set is left out
MatchedLocales_NoFilter(possible, normalizedAliases, supportedSet) ==
    [i \in 1..Len(possible) |-> SwapAlias(normalizedAliases, possible[i])]

\* Mutation of MatchedLocales: a supported candidate is not swapped for its alias
MatchedLocales_PreferSupported(possible, normalizedAliases, supportedSet) ==
    SelectSeq([i \in 1..Len(possible) |->
                  IF possible[i] \in supportedSet THEN possible[i]
                  ELSE SwapAlias(normalizedAliases, possible[i])],
              LAMBDA l : l \in supportedSet)

\* matchedLocales of lines 186-194
MatchedLocales(possible, normalizedAliases, supportedSet) ==
    SelectSeq([i \in 1..Len(possible) |-> SwapAlias(normalizedAliases, possible[i])],
              LAMBDA l : l \in supportedSet)

\* Mutation of lookupLocaleThrows: the alias map is not normalized up front
lookupLocaleThrows_SkipAliases(preferred, supported, als) ==
    \/ \E i \in DOMAIN preferred : Throws(preferred[i])
    \/ \E i \in DOMAIN supported : Throws(supported[i])

\* Whether one of the canonicalizations of lines 142-159 throws
lookupLocaleThrows(preferred, supported, als) ==
    \/ \E i \in DOMAIN preferred : Throws(preferred[i])
    \/ \E i \in DOMAIN supported : Throws(supported[i])
    \/ \E i \in DOMAIN als :
           als[i][2] # Undefined /\ (Throws(als[i][1]) \/ Throws(als[i][2]))

NoLocals ==
    [normalizedPreferredlocales |-> <<>>, supportedSet |-> {},
     normalizedAliases |-> <<>>, possibleLocales |-> <<>>]

\* The locals of a call that does not throw
LocalsOf(normalized, supported, als) ==
    [normalizedPreferredlocales |-> normalized,
     supportedSet |-> Range(getCanonicalLocales(supported)),
     normalizedAliases |-> NormalizeAliases(als),
     possibleLocales |-> PossibleFrom(normalized, 1)]

lookupLocaleLocals(preferred, supported, als) ==
    LocalsOf(getCanonicalLocales(preferred), supported, als)

\* Mutation of lookupLocaleReturn: the last match is returned, not the first
\* matchedLocales[0], undefined for an empty array
FirstOf(matchedLocales) ==
    IF matchedLocales = <<>> THEN Undefined ELSE matchedLocales[1]

LastOf(matchedLocales) ==
    IF matchedLocales = <<>> THEN Undefined ELSE matchedLocales[Len(matchedLocales)]

lookupLocaleReturn_Last(l) ==
    LastOf(MatchedLocales(l.possibleLocales, l.normalizedAliases, l.supportedSet))

\* The value returned from the locals: matchedLocales[0]
lookupLocaleReturn(l) ==
    FirstOf(MatchedLocales(l.possibleLocales, l.normalizedAliases, l.supportedSet))

-----------------------------------------------------------------------------
(* Inputs of the lookupLocale calls *)

MaxPreferred == 3
MaxSupported == 2

\* Raw locale strings as a caller may pass them
T_zhHantHK == <<"Z","H","-","h","A","N","T","-","h","k">>
T_zhHantTW == <<"z","h","-","H","a","n","t","-","T","W">>
T_zhHant == <<"z","h","-","h","a","n","t">>
T_zh == <<"z","h">>
T_zha == <<"z","h","a">>
T_pt == <<"P","T">>
T_bogus == <<"b","o","g","u","s","-","l","a","n","g","u","a","g","e">>
T_HantHK == <<"H","a","n","t","-","H","K">>

PreferredPool == {T_zhHantHK, T_zhHantTW, T_zh, T_zha, T_pt, T_bogus}
SupportedPool == <<T_zhHant, T_zhHantTW, T_zh, T_pt, T_HantHK>>
AliasPool ==
    { <<>>,
      << <<T_zh, T_zhHant>> >>,
      << <<T_pt, T_bogus>> >>,
      << <<T_HantHK, T_pt>> >>,
      << <<T_bogus, Undefined>> >> }

PreferredLists == UNION {[1..n -> PreferredPool] : n \in 1..MaxPreferred}

SupportedLists ==
    {SelectSeq(SupportedPool, LAMBDA t : t \in chosen) :
        chosen \in {c \in SUBSET Range(SupportedPool) : Cardinality(c) <= MaxSupported}}

-----------------------------------------------------------------------------
(* The values of the variables a specification does not use *)

NoOptions == [data |-> <<>>, key |-> <<>>, locales |-> <<>>, phrases |-> <<>>, rules |-> <<>>]

PhraseIdle ==
    /\ options = NoOptions
    /\ loopIndex = 0
    /\ currentLocale = Undefined
    /\ currentPhrase = [t |-> "undefined", v |-> <<>>]
    /\ pluralContext = Undefined
    /\ phraseResult = [threw |-> FALSE, value |-> Undefined]

LocaleIdle ==
    /\ preferredLocales = <<>>
    /\ supportedLocales = <<>>
    /\ aliases = <<>>
    /\ locals = NoLocals
    /\ localeResult = [threw |-> FALSE, value |-> Undefined]

NoTag ==
    [valid |-> FALSE, language |-> Undefined, script |-> Undefined,
     region |-> Undefined, normalizedString |-> Undefined]

TagIdle ==
    /\ tagInput = <<>>
    /\ tagParsed = NoTag
    /\ tagReparsed = NoTag
    /\ tagChain = <<>>

MergeIdle ==
    /\ mergeSource = <<>>
    /\ mergeBefore = <<>>
    /\ mergeTargets = <<>>
    /\ objectPrototype = <<>>
    /\ mergeThrew = FALSE

MnogaIdle ==
    /\ thisAliases = <<>>
    /\ thisFallback = <<>>
    /\ thisKeyMode = FALSE
    /\ thisLocale = Undefined
    /\ thisPhrases = <<>>
    /\ thisRules = <<>>
    /\ subscribers = <<>>
    /\ invocations = <<>>
    /\ unsubscribes = {}
    /\ arguments = <<>>
    /\ lastThrew = FALSE
    /\ calls = 0

RuleIdle ==
    /\ ruleArgument = 0
    /\ ruleResult = <<>>

IdleExceptLocale == PhraseIdle /\ TagIdle /\ MergeIdle /\ MnogaIdle /\ RuleIdle
IdleExceptPhrase == LocaleIdle /\ TagIdle /\ MergeIdle /\ MnogaIdle /\ RuleIdle
IdleExceptTag == LocaleIdle /\ PhraseIdle /\ MergeIdle /\ MnogaIdle /\ RuleIdle
IdleExceptMerge == LocaleIdle /\ PhraseIdle /\ TagIdle /\ MnogaIdle /\ RuleIdle
IdleExceptMnoga == LocaleIdle /\ PhraseIdle /\ TagIdle /\ MergeIdle /\ RuleIdle
IdleExceptRule == LocaleIdle /\ PhraseIdle /\ TagIdle /\ MergeIdle /\ MnogaIdle

-----------------------------------------------------------------------------
(* The lookupLocale call as a state machine *)

InitLocale ==
    /\ pc = "start"
    /\ preferredLocales \in PreferredLists
    /\ supportedLocales \in SupportedLists
    /\ aliases \in AliasPool
    /\ locals = NoLocals
    /\ localeResult = [threw |-> FALSE, value |-> Undefined]
    /\ IdleExceptLocale

\* lookupLocale throws while normalizing its arguments
LookupLocaleThrow ==
    /\ pc = "start"
    /\ lookupLocaleThrows(preferredLocales, supportedLocales, aliases)
    /\ pc' = "done"
    /\ localeResult' = [threw |-> TRUE, value |-> Undefined]
    /\ UNCHANGED <<preferredLocales, supportedLocales, aliases, locals>>
    /\ UNCHANGED exceptLocale

\* lookupLocale runs to its return statement
LookupLocaleReturn ==
    /\ pc = "start"
    /\ ~lookupLocaleThrows(preferredLocales, supportedLocales, aliases)
    /\ pc' = "done"
    /\ locals' = lookupLocaleLocals(preferredLocales, supportedLocales, aliases)
    /\ localeResult' = [threw |-> FALSE, value |-> lookupLocaleReturn(locals')]
    /\ UNCHANGED <<preferredLocales, supportedLocales, aliases>>
    /\ UNCHANGED exceptLocale

NextLocale == LookupLocaleThrow \/ LookupLocaleReturn

SpecLocale == InitLocale /\ [][NextLocale]_vars

-----------------------------------------------------------------------------
(* Properties of lookupLocale *)

Returned == pc = "done" /\ ~localeResult.threw

\* The canonical supported locales, computed from the argument
CanonicalSupported == {getCanonicalLocale(supportedLocales[i]) : i \in DOMAIN supportedLocales}

\* The generated fallbacks of a canonical locale: its chain without itself
GeneratedFallbacks(l) == Range(Tail(getFallbackPattern(l)))

\* The index in possibleLocales of the candidate that was returned, 0 if none
ResultIndex ==
    LET hits == {k \in DOMAIN locals.possibleLocales :
                    SwapAlias(locals.normalizedAliases, locals.possibleLocales[k])
                        \in locals.supportedSet}
    IN  IF hits = {} THEN 0 ELSE CHOOSE k \in hits : \A h \in hits : k <= h

\* The index in possibleLocales of preferred entry i itself
RECURSIVE EntryIndex(_)
EntryIndex(i) ==
    IF i = 1 THEN 1
    ELSE EntryIndex(i - 1) + 1
         + Len(FallbacksOfEntry(locals.normalizedPreferredlocales, i - 1))

\* The indices in possibleLocales of the fallbacks pushed for entry i
FallbackSlots(i) ==
    (EntryIndex(i) + 1) ..
        (EntryIndex(i) + Len(FallbacksOfEntry(locals.normalizedPreferredlocales, i)))

\* Every preferred string is made of letters, digits and hyphens
AlphanumericTags ==
    \A i \in DOMAIN preferredLocales :
        Range(preferredLocales[i]) \subseteq LetterChars \cup DigitChars \cup {"-"}

\* C1: a defined result of lookupLocale is one of the canonicalized supported
\* locales; an alias target that is not supported is never returned.
C1_ResultIsSupported ==
    (Returned /\ localeResult.value # Undefined)
        => localeResult.value \in CanonicalSupported

\* C1 witness: a candidate was swapped for an alias target that is not
\* supported, and a supported locale was returned all the same.
C1_Witness ==
    /\ Returned
    /\ localeResult.value # Undefined
    /\ \E k \in DOMAIN locals.possibleLocales :
          /\ locals.possibleLocales[k] \in DOMAIN locals.normalizedAliases
          /\ locals.normalizedAliases[locals.possibleLocales[k]] \notin CanonicalSupported
          /\ k < ResultIndex

\* C2 as stated: without aliases, a generated fallback f of entry i (not listed
\* in preferred) is never the result when some later entry j > i, adjacent or
\* not, has f in its own fallback chain and is itself supported.
C2_AnyLaterEntry ==
    (Returned /\ aliases = <<>>) =>
        LET n == locals.normalizedPreferredlocales
        IN  \A i \in DOMAIN n : \A j \in DOMAIN n : \A f \in GeneratedFallbacks(n[i]) :
                (/\ i < j
                 /\ f \notin Range(n)
                 /\ f \in Range(getFallbackPattern(n[j]))
                 /\ n[j] \in locals.supportedSet)
                    => localeResult.value # f

\* C2 amended: without aliases and for alphanumeric tags, a generated fallback f
\* of entry i (not listed in preferred) is never selected as the result from
\* entry i's own fallbacks when the immediately next entry i + 1 has f in its
\* fallback chain and is itself supported.
C2_NextEntry ==
    (Returned /\ aliases = <<>> /\ AlphanumericTags) =>
        LET n == locals.normalizedPreferredlocales
        IN  \A i \in DOMAIN n : \A f \in GeneratedFallbacks(n[i]) :
                (/\ i + 1 \in DOMAIN n
                 /\ f \notin Range(n)
                 /\ f \in Range(getFallbackPattern(n[i + 1]))
                 /\ n[i + 1] \in locals.supportedSet)
                    => ~(/\ ResultIndex \in FallbackSlots(i)
                         /\ locals.possibleLocales[ResultIndex] = f)

\* C2 witness: entry i is not supported, its fallback f and the next entry are
\* both supported, and the next entry is returned.
C2_Witness ==
    /\ Returned /\ aliases = <<>> /\ AlphanumericTags
    /\ LET n == locals.normalizedPreferredlocales
       IN  \E i \in DOMAIN n : \E f \in GeneratedFallbacks(n[i]) :
               /\ i = 1 /\ i + 1 \in DOMAIN n
               /\ n[i] \notin locals.supportedSet
               /\ f \notin Range(n)
               /\ f \in locals.supportedSet
               /\ f \in Range(getFallbackPattern(n[i + 1]))
               /\ n[i + 1] \in locals.supportedSet
               /\ localeResult.value = n[i + 1]

\* C3: without aliases, when preferred entry i is itself supported the result
\* is defined and belongs to the fallback chain of an entry at or before i: it
\* is never a locale that only a later entry contributes.
C3_PreferenceOrder ==
    (Returned /\ aliases = <<>>) =>
        LET n == locals.normalizedPreferredlocales
        IN  \A i \in DOMAIN n :
                n[i] \in CanonicalSupported =>
                    /\ localeResult.value # Undefined
                    /\ \E k \in 1..i :
                          localeResult.value \in Range(getFallbackPattern(n[k]))

\* C3 witness: a supported entry i > 1 is returned although a later supported
\* entry is a generic fallback of the first entry ([zh-Hant-HK, pt, zh]).
C3_Witness ==
    /\ Returned /\ aliases = <<>>
    /\ LET n == locals.normalizedPreferredlocales
       IN  \E i \in DOMAIN n : \E j \in DOMAIN n :
               /\ 1 < i /\ i < j
               /\ n[i] \in CanonicalSupported
               /\ n[j] \in CanonicalSupported
               /\ n[j] # n[i]
               /\ n[j] \in GeneratedFallbacks(n[1])
               /\ localeResult.value = n[i]

\* C4 as stated: whenever a preferred locale or a member of its fallback chain
\* (getFallbackPattern) is, after alias substitution, supported, the result of
\* lookupLocale is defined.
C4_DefinedWhenChainMatches ==
    Returned =>
        LET n == locals.normalizedPreferredlocales
        IN  (\E i \in DOMAIN n : \E f \in Range(getFallbackPattern(n[i])) :
                SwapAlias(locals.normalizedAliases, f) \in CanonicalSupported)
                => localeResult.value # Undefined

\* An argument string that LanguageTag rejects
InvalidPreferred == \E i \in DOMAIN preferredLocales : Throws(preferredLocales[i])
InvalidSupported == \E i \in DOMAIN supportedLocales : Throws(supportedLocales[i])
InvalidAliasKey == \E i \in DOMAIN aliases : Throws(aliases[i][1])
InvalidAliasValue ==
    \E i \in DOMAIN aliases : aliases[i][2] # Undefined /\ Throws(aliases[i][2])
InvalidAliasKeyOfString ==
    \E i \in DOMAIN aliases : aliases[i][2] # Undefined /\ Throws(aliases[i][1])

\* C5 as stated: lookupLocale throws whenever a string of preferred or of
\* supported, or any key or string value of the alias map, is not a valid tag.
C5_ThrowsOnAnyKey ==
    (pc = "done" /\ (InvalidPreferred \/ InvalidSupported \/ InvalidAliasKey
                         \/ InvalidAliasValue))
        => localeResult.threw

\* C5 amended: lookupLocale throws, and produces no value and no candidates,
\* whenever a string of preferred or of supported, or a string value of the
\* alias map or the key of such a value, is not a valid tag.
C5_ThrowsOnMalformed ==
    (pc = "done" /\ (InvalidPreferred \/ InvalidSupported \/ InvalidAliasKeyOfString
                         \/ InvalidAliasValue))
        => /\ localeResult.threw
           /\ localeResult.value = Undefined
           /\ locals = NoLocals

\* C5 witness: the only malformed string is in the alias map, no candidate
\* is an alias key, and a preferred locale is supported; the call throws.
C5_Witness ==
    /\ pc = "done" /\ localeResult.threw
    /\ ~InvalidPreferred /\ ~InvalidSupported
    /\ \E i \in DOMAIN preferredLocales :
          getCanonicalLocale(preferredLocales[i]) \in CanonicalSupported
    /\ \A i \in DOMAIN preferredLocales : \A a \in DOMAIN aliases :
          ~Throws(aliases[a][1]) =>
              getCanonicalLocale(aliases[a][1])
                  \notin Range(getFallbackPattern(preferredLocales[i]))

-----------------------------------------------------------------------------
(* JavaScript values of lookupPhrase: a value is a record of its type tag t  *)
(* and its content v. An object's content maps its own property names to    *)
(* values; every object literal inherits from Object.prototype, whose own   *)
(* prototype is null.                                                       *)

JSString(s) == [t |-> "string", v |-> s]
JSNumber(n) == [t |-> "number", v |-> n]
JSFunction(name) == [t |-> "function", v |-> name]
JSObject(pairs) == [t |-> "object", v |-> ObjectOfPairs(pairs)]
JSUndefined == [t |-> "undefined", v |-> <<>>]
JSNull == [t |-> "null", v |-> <<>>]
ObjectPrototype == [t |-> "prototype", v |-> <<>>]

\* The TypeError thrown by a property read on null or a call of a non-function
TypeError == [t |-> "TypeError", v |-> <<>>]

\* typeof x
typeof(x) == IF x.t \in {"object", "prototype", "null"} THEN "object" ELSE x.t

S_proto == <<"_","_","p","r","o","t","o","_","_">>
S_constructor == <<"c","o","n","s","t","r","u","c","t","o","r">>
S_toString == <<"t","o","S","t","r","i","n","g">>
S_valueOf == <<"v","a","l","u","e","O","f">>

\* Methods every object inherits from Object.prototype (those the model names)
PrototypeFunctions == {S_constructor, S_toString, S_valueOf}

\* obj[k] for a value whose typeof is 'object'
Get(obj, k) ==
    IF obj.t = "null" THEN TypeError
    ELSE IF obj.t = "object" /\ k \in DOMAIN obj.v THEN obj.v[k]
    ELSE IF k = S_proto THEN (IF obj.t = "object" THEN ObjectPrototype ELSE JSNull)
    ELSE IF k \in PrototypeFunctions THEN JSFunction(k)
    ELSE JSUndefined

isPhrases(phrases) == typeof(phrases) = "object"

-----------------------------------------------------------------------------
(* i18n.ts: the key format *)

\* CONTEXT_CHARACTERS: the class [A-Za-z0-9-_]
CONTEXT_CHARACTERS == LetterChars \cup DigitChars \cup {"-", "_"}

DELIMITER == "."

\* The characters "." of a regular expression does not match
LineTerminators == {"\n", "\r"}

\* One character of input for ^C+(.C+)*$, on the set of positions the matcher
\* can be at: "need" before the first character of a context, "in" after one.
\* The delimiter is spliced into the expression unescaped, so it matches as ".".
KeyStep(states, c) ==
    (IF c \in CONTEXT_CHARACTERS /\ states # {} THEN {"in"} ELSE {})
    \cup (IF "in" \in states /\ c \notin LineTerminators THEN {"need"} ELSE {})

RECURSIVE KeyStates(_, _)
KeyStates(key, n) ==
    IF n = 0 THEN {"need"} ELSE KeyStep(KeyStates(key, n - 1), key[n])

\* key.match(VALID_KEY) is not null
VALID_KEY(key) == "in" \in KeyStates(key, Len(key))

\* The first position of the delimiter in s, 0 if there is none
IndexOfDelimiter(s) ==
    IF \E i \in DOMAIN s : s[i] = DELIMITER
    THEN CHOOSE i \in DOMAIN s : s[i] = DELIMITER /\ \A j \in 1..(i - 1) : s[j] # DELIMITER
    ELSE 0

RECURSIVE SplitAt(_, _)
SplitAt(s, i) ==
    IF i = 0 THEN <<s>>
    ELSE <<SubSeq(s, 1, i - 1)>>
         \o SplitAt(SubSeq(s, i + 1, Len(s)), IndexOfDelimiter(SubSeq(s, i + 1, Len(s))))

\* key.split(delimiter)
split(key) == SplitAt(key, IndexOfDelimiter(key))

-----------------------------------------------------------------------------
(* pluralization.ts: the plural categories and the rules, on integers *)

Zero == <<"z","e","r","o">>
One == <<"o","n","e">>
Two == <<"t","w","o">>
Few == <<"f","e","w">>
Many == <<"m","a","n","y">>
Other == <<"o","t","h","e","r">>

\* n % m of JavaScript: the sign of the result is the sign of n
Remainder(n, m) == IF n >= 0 THEN n % m ELSE 0 - ((0 - n) % m)

\* Math.floor(n) === n, of the numbers the model passes: the integers
isInteger(n) == n \in Int

\* Mutation of arabicOf: few ends at 9
arabicOf_FewBelowTen(n, mod100, integer) ==
    IF n = 0 THEN Zero
    ELSE IF n = 1 THEN One
    ELSE IF n = 2 THEN Two
    ELSE IF integer /\ mod100 >= 3 /\ mod100 < 10 THEN Few
    ELSE IF integer /\ mod100 >= 11 /\ mod100 <= 99 THEN Many
    ELSE Other

arabicOf(n, mod100, integer) ==
    IF n = 0 THEN Zero
    ELSE IF n = 1 THEN One
    ELSE IF n = 2 THEN Two
    ELSE IF integer /\ mod100 >= 3 /\ mod100 <= 10 THEN Few
    ELSE IF integer /\ mod100 >= 11 /\ mod100 <= 99 THEN Many
    ELSE Other

arabic(n) == arabicOf(n, Remainder(n, 100), isInteger(n))

eastSlavicOf(mod10, mod100) ==
    IF mod10 = 1 /\ mod100 # 11 THEN One
    ELSE IF mod10 \in {2, 3, 4} /\ mod100 \notin {12, 13, 14} THEN Few
    ELSE IF mod10 = 0 \/ mod10 \in {5, 6, 7, 8, 9} \/ mod100 \in {11, 12, 13, 14} THEN Many
    ELSE Other

eastSlavic(n) == eastSlavicOf(Remainder(n, 10), Remainder(n, 100))

oneOther(n) == IF n = 1 THEN One ELSE Other

oneTwoOther(n) == IF n = 1 THEN One ELSE IF n = 2 THEN Two ELSE Other

oneUpToTwoOther(n) == IF n >= 0 /\ n < 2 THEN One ELSE Other

oneWithZeroOther(n) == IF n = 0 \/ n = 1 THEN One ELSE Other

other(n) == Other

polishOf(n, mod10, mod100) ==
    IF n = 1 THEN One
    ELSE IF mod10 \in {2, 3, 4} /\ mod100 \notin {12, 13, 14} THEN Few
    ELSE IF mod10 \in {0, 1, 5, 6, 7, 8, 9} \/ mod100 \in {12, 13, 14} THEN Many
    ELSE Other

polish(n) == polishOf(n, Remainder(n, 10), Remainder(n, 100))

westSlavic(n) == IF n = 1 THEN One ELSE IF n \in {2, 3, 4} THEN Few ELSE Other

\* rule(n) for a rule function given by its name
CallRule(name, n) ==
    CASE name = "arabic" -> arabic(n)
      [] name = "eastSlavic" -> eastSlavic(n)
      [] name = "oneOther" -> oneOther(n)
      [] name = "oneTwoOther" -> oneTwoOther(n)
      [] name = "oneUpToTwoOther" -> oneUpToTwoOther(n)
      [] name = "oneWithZeroOther" -> oneWithZeroOther(n)
      [] name = "polish" -> polish(n)
      [] name = "westSlavic" -> westSlavic(n)
      [] OTHER -> other(n)

Lang(a, b) == <<a, b>>

\* The entries of DEFAULT_RULES in the order written
DefaultRules ==
    <<
        <<Lang("a","f"), JSFunction("oneOther")>>,
        <<Lang("a","r"), JSFunction("arabic")>>,
        <<Lang("b","e"), JSFunction("eastSlavic")>>,
        <<Lang("c","s"), JSFunction("westSlavic")>>,
        <<Lang("d","e"), JSFunction("oneOther")>>,
        <<Lang("e","l"), JSFunction("oneOther")>>,
        <<Lang("e","n"), JSFunction("oneOther")>>,
        <<Lang("e","s"), JSFunction("oneOther")>>,
        <<Lang("f","i"), JSFunction("oneOther")>>,
        <<Lang("f","r"), JSFunction("oneUpToTwoOther")>>,
        <<Lang("h","i"), JSFunction("oneWithZeroOther")>>,
        <<Lang("i","d"), JSFunction("other")>>,
        <<Lang("i","t"), JSFunction("oneOther")>>,
        <<Lang("i","u"), JSFunction("oneTwoOther")>>,
        <<Lang("j","a"), JSFunction("other")>>,
        <<Lang("k","o"), JSFunction("other")>>,
        <<Lang("m","s"), JSFunction("other")>>,
        <<Lang("m","y"), JSFunction("other")>>,
        <<Lang("n","e"), JSFunction("oneOther")>>,
        <<Lang("n","l"), JSFunction("oneOther")>>,
        <<Lang("p","l"), JSFunction("polish")>>,
        <<Lang("p","t"), JSFunction("oneOther")>>,
        <<Lang("t","h"), JSFunction("other")>>,
        <<Lang("t","r"), JSFunction("other")>>,
        <<Lang("s","k"), JSFunction("westSlavic")>>,
        <<Lang("s","w"), JSFunction("oneOther")>>,
        <<Lang("u","k"), JSFunction("eastSlavic")>>,
        <<Lang("r","u"), JSFunction("eastSlavic")>>,
        <<Lang("v","i"), JSFunction("other")>>,
        <<Lang("z","h"), JSFunction("other")>> >>

DEFAULT_RULES == JSObject(DefaultRules)

-----------------------------------------------------------------------------
(* i18n.ts: lookupPhrase *)

S_count == <<"c","o","u","n","t">>

\* One round of the loop over the contexts (line 312)
NextPhrase(phrase, context) ==
    IF phrase.t = "TypeError" THEN phrase
    ELSE IF isPhrases(phrase) THEN Get(phrase, context)
    ELSE JSUndefined

\* The loop of lines 310-313, from context j on
RECURSIVE Walk(_, _, _)
Walk(phrase, contexts, j) ==
    IF j > Len(contexts) THEN phrase
    ELSE Walk(NextPhrase(phrase, contexts[j]), contexts, j + 1)

\* The condition of line 316
Pluralizes(phrase, data) ==
    /\ phrase.t # "TypeError"
    /\ isPhrases(phrase)
    /\ typeof(Get(data, S_count)) = "number"

\* found || other, for the value found under rules[locale]
OrOther(found) ==
    IF found.t \in {"undefined", "null"} THEN JSFunction("other") ELSE found

\* rules[locale] || other (line 317)
RuleOf(rules, locale) == OrOther(Get(rules, locale))

\* rule(data.count) (line 318); calling a value that is no function throws
ContextOf(rule, count) ==
    IF rule.t = "function" THEN JSString(CallRule(rule.v, count.v)) ELSE TypeError

PluralContext(rules, locale, data) == ContextOf(RuleOf(rules, locale), Get(data, S_count))

\* Mutation of PluralPhrase: the entry named other is read for every category
PluralPhrase_Other(phrase, context) ==
    IF context.t = "TypeError" THEN context ELSE Get(phrase, Other)

\* phrase[context] (line 319)
PluralPhrase(phrase, context) ==
    IF context.t = "TypeError" THEN context ELSE Get(phrase, context.v)

\* The phrase after lines 316-320
Pluralize(phrase, options_, locale) ==
    IF Pluralizes(phrase, options_.data)
    THEN PluralPhrase(phrase, PluralContext(options_.rules, locale, options_.data))
    ELSE phrase

\* The phrase before the pluralization: lines 304-313
WalkKey(options_, locale) == Walk(Get(options_.phrases, locale), split(options_.key), 1)

\* The phrase one iteration ends with, or the TypeError it throws
Resolve(options_, locale) == Pluralize(WalkKey(options_, locale), options_, locale)

\* `${result}` for an integer
RECURSIVE DigitsOf(_)
DigitsOf(n) ==
    IF n < 10 THEN <<DigitSeq[n + 1]>>
    ELSE DigitsOf(n \div 10) \o <<DigitSeq[(n % 10) + 1]>>

NumberToString(n) == IF n < 0 THEN <<"-">> \o DigitsOf(0 - n) ELSE DigitsOf(n)

\* The replacer callback of lines 325-330, for the value found under data[arg]
ReplacementOf(result, exp) ==
    IF typeof(result) = "string" THEN result.v
    ELSE IF typeof(result) = "number" THEN NumberToString(result.v)
    ELSE exp

\* Mutation of Replacement: a placeholder without a value is blanked
Replacement_Blank(data, exp, arg) ==
    IF Get(data, arg).t \in {"string", "number"} THEN ReplacementOf(Get(data, arg), exp)
    ELSE <<>>

Replacement(data, exp, arg) == ReplacementOf(Get(data, arg), exp)

\* INTERPOLATION_REGEX matches at position i of s up to position j:
\* "%{", then characters other than "}", then "}"
OpensAt(s, i) == i + 1 <= Len(s) /\ s[i] = "%" /\ s[i + 1] = "{"

ClosingBrace(s, i) ==
    IF \E j \in (i + 2)..Len(s) : s[j] = "}"
    THEN CHOOSE j \in (i + 2)..Len(s) :
             s[j] = "}" /\ \A k \in (i + 2)..(j - 1) : s[k] # "}"
    ELSE 0

\* phrase.replace(INTERPOLATION_REGEX, replacer), from position i on: the
\* matches are found from left to right and do not overlap
RECURSIVE ReplaceFrom(_, _, _)
MatchAt(s, data, i, j) ==
    IF j = 0 THEN <<s[i]>> \o ReplaceFrom(s, data, i + 1)
    ELSE Replacement(data, SubSeq(s, i, j), SubSeq(s, i + 2, j - 1))
         \o ReplaceFrom(s, data, j + 1)

ReplaceFrom(s, data, i) ==
    IF i > Len(s) THEN <<>>
    ELSE IF OpensAt(s, i) THEN MatchAt(s, data, i, ClosingBrace(s, i))
    ELSE <<s[i]>> \o ReplaceFrom(s, data, i + 1)

Interpolate(phrase, data) == ReplaceFrom(phrase, data, 1)

\* Mutation of Returns: a string does not end the loop
Returns_Never(phrase) == FALSE

\* The condition of line 323: typeof phrase === 'string'
Returns(phrase) == typeof(phrase) = "string"

-----------------------------------------------------------------------------
(* Inputs of the lookupPhrase calls *)

MaxLocales == 2

L_ja == <<"j","a">>
L_en == <<"e","n">>
L_enGB == <<"e","n","-","G","B">>
L_pt == <<"p","t">>

LocalePool == {L_ja, L_en, L_enGB, L_pt}

LocaleLists == UNION {[1..n -> LocalePool] : n \in 0..MaxLocales}

K_ab == <<"a",".","b">>
K_abc == <<"a",".","b",".","c">>
K_a == <<"a">>
K_p == <<"p">>
K_i == <<"i">>
K_t == <<"t">>
K_x == <<"x">>
K_space == <<"a"," ","b">>
K_bang == <<"a","!","b">>
K_bangOnly == <<"!">>
K_dots == <<"a",".",".","b">>
K_empty == <<>>
K_proto == S_proto \o <<".">> \o S_proto \o <<".","x">>

KeyPool ==
    <<K_ab, K_abc, K_a, K_p, K_i, K_t, K_x, K_space, K_bang, K_bangOnly,
      K_dots, K_empty, K_proto>>

\* The phrases of the tests, with a plural context under en-GB, a leaf under
\* en-GB where en has a sub-tree, and leaves with placeholders
PhrasesEn ==
    JSObject(<<
        <<<<"a">>, JSObject(<< <<<<"b">>, JSString(<<"E">>)>> >>)>>,
        <<<<"p">>, JSObject(<< <<One, JSString(<<"1","c">>)>>,
                              <<Other, JSString(<<"%","{","c","o","u","n","t","}","c">>)>> >>)>>,
        <<<<"i">>, JSString(<<"%","{","x","}","%","{","n","}"," ","%","{","z","}">>)>>,
        <<<<"t">>, JSString(<<"%","{","a","%","{","x","}">>)>> >>)

PhrasesEnGB ==
    JSObject(<<
        <<<<"a">>, JSString(<<"L">>)>>,
        <<<<"p">>, JSObject(<< <<One, JSString(<<"G","1">>)>>,
                              <<Other, JSString(<<"G","n">>)>> >>)>> >>)

PhrasesJa ==
    JSObject(<<
        <<<<"a">>, JSObject(<< <<<<"b">>, JSString(<<"J">>)>> >>)>>,
        <<<<"p">>, JSObject(<< <<Other, JSString(<<"%","{","c","o","u","n","t","}","j">>)>> >>)>>,
        <<<<"t">>, JSObject(<< <<Other, JSObject(<< <<<<"b">>, JSString(<<"J">>)>> >>)>> >>)>> >>)

PhrasesPool ==
    << JSObject(<< <<L_en, PhrasesEn>>, <<L_enGB, PhrasesEnGB>>, <<L_ja, PhrasesJa>> >>),
       JSObject(<< <<L_en, PhrasesEn>> >>),
       JSObject(<<>>) >>

DataPool ==
    << JSObject(<<>>),
       JSObject(<< <<S_count, JSNumber(1)>> >>),
       JSObject(<< <<S_count, JSNumber(5)>> >>),
       JSObject(<< <<<<"x">>, JSString(<<"v">>)>>, <<<<"n">>, JSNumber(12)>> >>),
       JSObject(<< <<<<"x">>, JSString(<<"%","{","n","}">>)>>, <<<<"n">>, JSNumber(0 - 3)>> >>) >>

RulesPool ==
    << DEFAULT_RULES,
       JSObject(<< <<L_en, JSFunction("other")>> >>),
       JSObject(<< <<L_en, JSFunction("other")>>, <<L_enGB, JSFunction("oneOther")>> >>) >>

-----------------------------------------------------------------------------
(* The lookupPhrase call as a state machine *)

InitPhrase ==
    /\ pc = "start"
    /\ \E k \in DOMAIN KeyPool, p \in DOMAIN PhrasesPool, d \in DOMAIN DataPool,
          r \in DOMAIN RulesPool, ls \in LocaleLists :
           options = [data |-> DataPool[d], key |-> KeyPool[k], locales |-> ls,
                      phrases |-> PhrasesPool[p], rules |-> RulesPool[r]]
    /\ loopIndex = 0
    /\ currentLocale = Undefined
    /\ currentPhrase = [t |-> "undefined", v |-> <<>>]
    /\ pluralContext = Undefined
    /\ phraseResult = [threw |-> FALSE, value |-> Undefined]
    /\ IdleExceptPhrase

\* The text of a plural context, undefined when the rule call threw
ContextText(context) == IF context.t = "string" THEN context.v ELSE Undefined

\* The local context of line 318 after an iteration, undefined when the
\* iteration did not pluralize
ContextAfter(options_, locale) ==
    IF Pluralizes(WalkKey(options_, locale), options_.data)
    THEN ContextText(PluralContext(options_.rules, locale, options_.data))
    ELSE Undefined

\* The key does not match the key format (lines 296-300)
LookupPhraseInvalidKey ==
    /\ pc = "start"
    /\ ~VALID_KEY(options.key)
    /\ pc' = "done"
    /\ phraseResult' = [threw |-> TRUE, value |-> Undefined]
    /\ UNCHANGED <<options, loopIndex, currentLocale, currentPhrase, pluralContext>>
    /\ UNCHANGED exceptPhrase

\* The key matches and the loop over the locales starts (line 303)
LookupPhraseEnter ==
    /\ pc = "start"
    /\ VALID_KEY(options.key)
    /\ pc' = "loop"
    /\ loopIndex' = 1
    /\ UNCHANGED <<options, currentLocale, currentPhrase, pluralContext, phraseResult>>
    /\ UNCHANGED exceptPhrase

\* The body of the loop up to line 320
Iteration ==
    /\ pc = "loop"
    /\ loopIndex <= Len(options.locales)
    /\ currentLocale' = options.locales[loopIndex]
    /\ currentPhrase' = Resolve(options, options.locales[loopIndex])
    /\ pluralContext' = ContextAfter(options, options.locales[loopIndex])
    /\ UNCHANGED options
    /\ UNCHANGED exceptPhrase

\* An iteration that returns the interpolated phrase (lines 323-331)
LookupPhraseReturn ==
    /\ Iteration
    /\ Returns(currentPhrase')
    /\ pc' = "done"
    /\ phraseResult' = [threw |-> FALSE,
                        value |-> Interpolate(currentPhrase'.v, options.data)]
    /\ UNCHANGED loopIndex

\* An iteration that throws a TypeError
LookupPhraseTypeError ==
    /\ Iteration
    /\ currentPhrase'.t = "TypeError"
    /\ pc' = "done"
    /\ phraseResult' = [threw |-> TRUE, value |-> Undefined]
    /\ UNCHANGED loopIndex

\* An iteration that finds no string and goes on to the next locale
LookupPhraseContinue ==
    /\ Iteration
    /\ currentPhrase'.t # "TypeError"
    /\ ~Returns(currentPhrase')
    /\ pc' = "loop"
    /\ loopIndex' = loopIndex + 1
    /\ UNCHANGED phraseResult

\* The loop is over: the key is returned (line 335)
LookupPhraseFallback ==
    /\ pc = "loop"
    /\ loopIndex > Len(options.locales)
    /\ pc' = "done"
    /\ phraseResult' = [threw |-> FALSE, value |-> options.key]
    /\ UNCHANGED <<options, loopIndex, currentLocale, currentPhrase, pluralContext>>
    /\ UNCHANGED exceptPhrase

NextPhraseCall ==
    \/ LookupPhraseInvalidKey
    \/ LookupPhraseEnter
    \/ LookupPhraseReturn
    \/ LookupPhraseTypeError
    \/ LookupPhraseContinue
    \/ LookupPhraseFallback

SpecPhrase == InitPhrase /\ [][NextPhraseCall]_vars

-----------------------------------------------------------------------------
(* Properties of lookupPhrase *)

\* Whether the locale at position i of options.locales resolves the key to a string
Yields(i) == Resolve(options, options.locales[i]).t = "string"

YieldingLocales == {i \in DOMAIN options.locales : Yields(i)}

FirstYielding == CHOOSE i \in YieldingLocales : \A j \in YieldingLocales : i <= j

\* The interpolated leaf of the locale at position i
LeafOf(i) == Interpolate(Resolve(options, options.locales[i]).v, options.data)

\* C6: the locales are tried in the order given: the loop reaches a locale only
\* after every earlier locale failed to resolve the key to a string, and when
\* some locale resolves it the call stops at the first such locale and returns
\* its interpolated leaf.
C6_FirstStringWins ==
    /\ pc = "loop" =>
           \A j \in DOMAIN options.locales : j < loopIndex => ~Yields(j)
    /\ (pc = "done" /\ VALID_KEY(options.key) /\ YieldingLocales # {}) =>
           /\ ~phraseResult.threw
           /\ loopIndex = FirstYielding
           /\ currentLocale = options.locales[FirstYielding]
           /\ phraseResult.value = LeafOf(FirstYielding)

\* Two different locales resolve the key and the call returned at the first
C6_Witness ==
    /\ pc = "done"
    /\ ~phraseResult.threw
    /\ Len(options.locales) = 2
    /\ options.locales[1] # options.locales[2]
    /\ YieldingLocales = {1, 2}
    /\ loopIndex = 1
    /\ phraseResult.value # LeafOf(2)

\* The key grammar of the specification: non-empty segments of the characters
\* [A-Za-z0-9_-], joined by single "." delimiters
SegmentsValid(contexts) ==
    \A j \in DOMAIN contexts :
        /\ contexts[j] # <<>>
        /\ \A n \in DOMAIN contexts[j] : contexts[j][n] \in CONTEXT_CHARACTERS

GrammarKey(key) == SegmentsValid(split(key))

\* C7: for a key of the grammar, a call in which no locale resolves the key to
\* a string returns the key and throws nothing.
C7_KeyWhenNothingResolves ==
    (pc = "done" /\ GrammarKey(options.key) /\ YieldingLocales = {}) =>
        /\ ~phraseResult.threw
        /\ phraseResult.value = options.key

\* found when it is a function, the fallback otherwise
FunctionOr(found, fallback) == IF found.t = "function" THEN found ELSE fallback

\* The rule of the specification: exact locale, then bare language, then other
RuleByPrecedence(rules, locale) ==
    FunctionOr(Get(rules, locale),
               FunctionOr(Get(rules, LanguageTag(locale).language), JSFunction("other")))

\* C8: an iteration that pluralizes uses the rule of the exact locale, else the
\* rule of the locale's bare language, else the constant other rule.
C8_RulePrecedence ==
    pluralContext # Undefined =>
        pluralContext = CallRule(RuleByPrecedence(options.rules, currentLocale).v,
                                 Get(options.data, S_count).v)

\* The names of data whose value is a string or a number
ValueNames(data) == {k \in DOMAIN data.v : data.v[k].t \in {"string", "number"}}

\* The text %{name} occurs in s at position i
OccursAt(s, i, name) ==
    /\ i + Len(name) + 2 <= Len(s)
    /\ SubSeq(s, i, i + Len(name) + 2) = <<"%", "{">> \o name \o <<"}">>

NamesAt(s, data, i) == {k \in ValueNames(data) : OccursAt(s, i, k)}

TextOf(value) == IF value.t = "string" THEN value.v ELSE NumberToString(value.v)

\* s with every occurrence of %{name}, name a string or number of data,
\* replaced by the text of data[name], and everything else kept
RECURSIVE SubstituteFrom(_, _, _)
SubstituteName(s, data, i, name) ==
    TextOf(data.v[name]) \o SubstituteFrom(s, data, i + Len(name) + 3)

SubstituteFrom(s, data, i) ==
    IF i > Len(s) THEN <<>>
    ELSE IF NamesAt(s, data, i) # {}
    THEN SubstituteName(s, data, i, CHOOSE k \in NamesAt(s, data, i) : TRUE)
    ELSE <<s[i]>> \o SubstituteFrom(s, data, i + 1)

\* The call returned the interpolation of the leaf held by currentPhrase
ReturnedLeaf == pc = "done" /\ ~phraseResult.threw /\ currentPhrase.t = "string"

\* C9 as stated: every occurrence of %{name} in the leaf is replaced by
\* data[name] when that is a string or a number, and the rest is unchanged.
C9_EveryOccurrence ==
    ReturnedLeaf =>
        phraseResult.value = SubstituteFrom(currentPhrase.v, options.data, 1)

\* No "%{" of s lies between another "%{" and the first "}" after it
PlaceholdersApart(s) ==
    \A i \in DOMAIN s :
        (OpensAt(s, i) /\ ClosingBrace(s, i) # 0) =>
            \A j \in (i + 1)..ClosingBrace(s, i) : ~OpensAt(s, j)

\* C9 amended: the same, for a leaf in which no "%{" follows another "%{"
\* before the first "}".
C9_OccurrencesApart ==
    (ReturnedLeaf /\ PlaceholdersApart(currentPhrase.v)) =>
        phraseResult.value = SubstituteFrom(currentPhrase.v, options.data, 1)

\* A leaf with a string, a number and an absent name was interpolated
C9_Witness ==
    /\ ReturnedLeaf
    /\ PlaceholdersApart(currentPhrase.v)
    /\ currentPhrase.v = <<"%","{","x","}","%","{","n","}"," ","%","{","z","}">>
    /\ phraseResult.value = <<"v","1","2"," ","%","{","z","}">>

\* C10: a key outside the grammar makes the call throw before any locale is
\* looked at.
C10_ThrowsOutsideGrammar ==
    (pc # "start" /\ ~GrammarKey(options.key)) =>
        /\ pc = "done"
        /\ phraseResult.threw
        /\ loopIndex = 0

-----------------------------------------------------------------------------
(* Inputs of the LanguageTag constructor: subtags joined by hyphens, and a   *)
(* few strings taken whole                                                   *)

MaxSubtags == 4

SubtagPool ==
    { <<"Z","H">>, <<"y","u","e">>, <<"h","A","N","T">>, <<"H","k">>,
      <<"1","2","3">>, <<"b","o","g","u","s">>, <<"a","b","c","d","]">>, <<>> }

WholeInputs ==
    { <<"r","a","n","d","o","m"," ","t","e","x","t">>,
      <<"l","a","n","g","u","a","g","e">>,
      <<"[","a","b","c","]">>,
      <<"l","a","n","g","u","a","g","e","s">>,
      <<"x">>, <<"e","n","-","u","s","a","X">> }

RECURSIVE JoinSubtags(_, _)
JoinSubtags(subtags, n) ==
    IF n = 1 THEN subtags[1]
    ELSE JoinSubtags(subtags, n - 1) \o <<"-">> \o subtags[n]

TagInputs ==
    WholeInputs
    \cup {JoinSubtags(st, Len(st)) :
             st \in UNION {[1..n -> SubtagPool] : n \in 1..MaxSubtags}}

-----------------------------------------------------------------------------
(* Constructing, canonicalizing and expanding a language tag *)

InitTag ==
    /\ pc = "start"
    /\ tagInput \in TagInputs
    /\ tagParsed = NoTag
    /\ tagReparsed = NoTag
    /\ tagChain = <<>>
    /\ IdleExceptTag

\* new LanguageTag(tagInput) throws
ConstructThrow ==
    /\ pc = "start"
    /\ Throws(tagInput)
    /\ pc' = "done"
    /\ UNCHANGED tagVars
    /\ UNCHANGED exceptTag

\* new LanguageTag(tagInput)
Construct ==
    /\ pc = "start"
    /\ ~Throws(tagInput)
    /\ pc' = "constructed"
    /\ tagParsed' = LanguageTag(tagInput)
    /\ UNCHANGED <<tagInput, tagReparsed, tagChain>>
    /\ UNCHANGED exceptTag

\* new LanguageTag(tag.toString())
Reconstruct ==
    /\ pc = "constructed"
    /\ pc' = "reconstructed"
    /\ tagReparsed' = LanguageTag(tagParsed.normalizedString)
    /\ UNCHANGED <<tagInput, tagParsed, tagChain>>
    /\ UNCHANGED exceptTag

\* getFallbackPattern(tagInput)
FallbackPattern ==
    /\ pc = "reconstructed"
    /\ pc' = "done"
    /\ tagChain' = getFallbackPattern(tagInput)
    /\ UNCHANGED <<tagInput, tagParsed, tagReparsed>>
    /\ UNCHANGED exceptTag

NextTag == ConstructThrow \/ Construct \/ Reconstruct \/ FallbackPattern

SpecTag == InitTag /\ [][NextTag]_vars

-----------------------------------------------------------------------------
(* Properties of LanguageTag, getCanonicalLocale and getFallbackPattern *)

\* The text of s before its first hyphen
FirstSubtag(s) ==
    IF \E i \in DOMAIN s : s[i] = "-"
    THEN SubSeq(s, 1, (CHOOSE i \in DOMAIN s :
                          s[i] = "-" /\ \A j \in 1..(i - 1) : s[j] # "-") - 1)
    ELSE s

AllLetters(s) == \A i \in DOMAIN s : s[i] \in LetterChars

\* s begins with a primary language subtag of the grammar, 2 to 8 letters,
\* that ends at a hyphen or at the end of s
BeginsWithPrimary(s) == Len(FirstSubtag(s)) \in 2..8 /\ AllLetters(FirstSubtag(s))

Constructed == pc # "start" /\ tagParsed.valid

\* C11: every input that begins with a primary language subtag of 2 to 8
\* letters is accepted, and a tag that is one subtag of 4 to 8 letters has
\* that subtag, lower-cased, as its language.
C11_AcceptsGrammar ==
    (pc # "start" /\ BeginsWithPrimary(tagInput)) =>
        /\ tagParsed.valid
        /\ (FirstSubtag(tagInput) = tagInput /\ Len(tagInput) >= 4) =>
               tagParsed.language = toLowerCase(tagInput)

\* C12: every input that does not begin with a primary language subtag ending
\* at a hyphen or at the end of the string is rejected.
C12_RejectsOutsideGrammar ==
    (pc # "start" /\ ~BeginsWithPrimary(tagInput)) => ~tagParsed.valid

\* C13: the canonical string of a valid tag parses to the same language,
\* script, region and canonical string.
C13_Idempotent ==
    (pc \in {"reconstructed", "done"} /\ tagParsed.valid) =>
        /\ tagReparsed.valid
        /\ tagReparsed.language = tagParsed.language
        /\ tagReparsed.script = tagParsed.script
        /\ tagReparsed.region = tagParsed.region
        /\ tagReparsed.normalizedString = tagParsed.normalizedString

\* ZH-yue-hANT-Hk was canonicalized and parsed again
C13_Witness ==
    /\ pc = "reconstructed"
    /\ tagInput = <<"Z","H","-","y","u","e","-","h","A","N","T","-","H","k">>
    /\ tagParsed.language = <<"z","h","-","y","u","e">>
    /\ tagReparsed.normalizedString =
           <<"z","h","-","y","u","e","-","H","a","n","t","-","H","K">>

\* language[-script][-region]
Joined(language, script, region) ==
    language
    \o (IF script # Undefined THEN <<"-">> \o script ELSE <<>>)
    \o (IF region # Undefined THEN <<"-">> \o region ELSE <<>>)

FirstUpperRestLower(s) ==
    /\ s[1] \in UpperChars
    /\ \A i \in 2..Len(s) : s[i] \in LowerChars

\* C14: the lower-cased and the upper-cased input are accepted exactly when
\* the input is and give the same tag, whose language has no upper-case
\* letter, whose script is title-cased, whose region has no lower-case letter,
\* and whose canonical string is language, script, region in this order.
C14_CaseInvariant ==
    pc # "start" =>
        /\ LanguageTag(toLowerCase(tagInput)) = tagParsed
        /\ LanguageTag(toUpperCase(tagInput)) = tagParsed
        /\ tagParsed.valid =>
               /\ \A i \in DOMAIN tagParsed.language :
                      tagParsed.language[i] \notin UpperChars
               /\ tagParsed.script # Undefined => FirstUpperRestLower(tagParsed.script)
               /\ tagParsed.region # Undefined =>
                      \A i \in DOMAIN tagParsed.region :
                          tagParsed.region[i] \notin LowerChars
               /\ tagParsed.normalizedString =
                      Joined(tagParsed.language, tagParsed.script, tagParsed.region)

\* ZH-hANT-Hk became zh-Hant-HK
C14_Witness ==
    /\ pc = "constructed"
    /\ tagInput = <<"Z","H","-","h","A","N","T","-","H","k">>
    /\ tagParsed.normalizedString = <<"z","h","-","H","a","n","t","-","H","K">>

\* The chain of the claim, from the fields of the constructed tag
ChainOfFields(canonical, language, script, region) ==
    <<canonical>>
    \o (IF script # Undefined /\ region # Undefined
        THEN <<language \o <<"-">> \o script>> ELSE <<>>)
    \o (IF canonical # language THEN <<language>> ELSE <<>>)

\* b is a of some subtags fewer: a proper prefix of a that ends before a hyphen
LessSpecific(a, b) ==
    /\ Len(b) < Len(a)
    /\ SubSeq(a, 1, Len(b)) = b
    /\ a[Len(b) + 1] = "-"

\* C15: the chain is the canonical tag, then language-script exactly when the
\* tag has a script and a region, then the language exactly when it differs
\* from the canonical tag; every entry is canonical and each entry is less
\* specific than the one before it.
C15_FallbackChain ==
    (pc = "done" /\ tagParsed.valid) =>
        /\ tagChain = ChainOfFields(tagParsed.normalizedString, tagParsed.language,
                                    tagParsed.script, tagParsed.region)
        /\ \A i \in DOMAIN tagChain :
               /\ ~Throws(tagChain[i])
               /\ getCanonicalLocale(tagChain[i]) = tagChain[i]
        /\ \A i \in 1..(Len(tagChain) - 1) : LessSpecific(tagChain[i], tagChain[i + 1])

\* The chain of ZH-hANT-Hk has three entries
C15_Witness ==
    /\ pc = "done"
    /\ tagInput = <<"Z","H","-","h","A","N","T","-","H","k">>
    /\ tagChain = << <<"z","h","-","H","a","n","t","-","H","K">>,
                     <<"z","h","-","H","a","n","t">>,
                     <<"z","h">> >>

-----------------------------------------------------------------------------
(* mergePhrases (i18n.ts:343-372) *)

(* An object whose properties are written and enumerated: its own properties *)
(* as <<key, value>> pairs in insertion order, the order for-in visits them  *)
(* in. A value is a string or such an object.                                *)
ObjectLiteral(pairs) == [t |-> "object", v |-> pairs]

\* Mutation of VALID_KEY_CONTEXT: the expression is not anchored
VALID_KEY_CONTEXT_Unanchored(context) ==
    \E i \in 1..Len(context) : context[i] \in CONTEXT_CHARACTERS

\* context.match(VALID_KEY_CONTEXT) is not null: ^[A-Za-z0-9-_]+$
VALID_KEY_CONTEXT(context) ==
    /\ Len(context) > 0
    /\ \A i \in 1..Len(context) : context[i] \in CONTEXT_CHARACTERS

\* The position of the own property k among pairs, 0 when there is none
OwnIndex(pairs, k) ==
    IF \E i \in 1..Len(pairs) : pairs[i][1] = k
    THEN CHOOSE i \in 1..Len(pairs) : pairs[i][1] = k
    ELSE 0

(* The objects a call works on, as references: the targets passed (root i is *)
(* targets[i]) and Object.prototype (root 0), which every object literal     *)
(* inherits from, each with the path of own properties leading to the        *)
(* object. The targets and phrases passed share no object.                   *)
Ref(root, path) == [root |-> root, path |-> path]
PrototypeRef == Ref(0, <<>>)
NullRef == Ref(-1, <<>>)

\* The object reached from obj along the own properties path[n..]
RECURSIVE At(_, _, _)
At(obj, path, n) ==
    IF n > Len(path) THEN obj
    ELSE At(obj.v[OwnIndex(obj.v, path[n])][2], path, n + 1)

Deref(heap, ref) ==
    At(IF ref.root = 0 THEN heap.prototype ELSE heap.targets[ref.root], ref.path, 1)

\* A value read from the object at ref: an object is given by its reference
Reference(ref, k, value) ==
    IF value.t = "object"
    THEN [t |-> "object", v |-> Ref(ref.root, Append(ref.path, k))]
    ELSE value

(* target[context] (i18n.ts:356): an own property, the accessor __proto__,   *)
(* a property Object.prototype was given, or one it is born with             *)
ReadOwn(ref, k, pairs, inherited) ==
    IF OwnIndex(pairs, k) # 0
    THEN Reference(ref, k, pairs[OwnIndex(pairs, k)][2])
    ELSE IF k = S_proto
    THEN (IF ref = PrototypeRef THEN JSNull ELSE [t |-> "object", v |-> PrototypeRef])
    ELSE IF ref # PrototypeRef /\ OwnIndex(inherited, k) # 0
    THEN Reference(PrototypeRef, k, inherited[OwnIndex(inherited, k)][2])
    ELSE IF k \in PrototypeFunctions THEN JSFunction(k)
    ELSE JSUndefined

Read(heap, ref, k) ==
    IF ref = NullRef THEN TypeError
    ELSE ReadOwn(ref, k, Deref(heap, ref).v, heap.prototype.v)

\* obj with its own property k set to value
SetOwn(obj, k, value) ==
    IF OwnIndex(obj.v, k) # 0
    THEN ObjectLiteral([obj.v EXCEPT ![OwnIndex(obj.v, k)] = <<k, value>>])
    ELSE ObjectLiteral(Append(obj.v, <<k, value>>))

\* obj with the own property k of the object along path[n..] set to value
RECURSIVE SetAt(_, _, _, _, _)
SetAt(obj, path, n, k, value) ==
    IF n > Len(path) THEN SetOwn(obj, k, value)
    ELSE SetOwn(obj, path[n],
                SetAt(obj.v[OwnIndex(obj.v, path[n])][2], path, n + 1, k, value))

(* target[context] = value (i18n.ts:359, 368). An object with no own         *)
(* property __proto__ has the accessor of Object.prototype run, which        *)
(* ignores a value that is not an object; null has no properties to set.     *)
Write(heap, ref, k, value) ==
    IF ref = NullRef THEN [heap EXCEPT !.threw = TRUE]
    ELSE IF k = S_proto /\ OwnIndex(Deref(heap, ref).v, k) = 0 THEN heap
    ELSE IF ref.root = 0
    THEN [heap EXCEPT !.prototype = SetAt(heap.prototype, ref.path, 1, k, value)]
    ELSE [heap EXCEPT !.targets[ref.root] =
                          SetAt(heap.targets[ref.root], ref.path, 1, k, value)]

\* The keys of pairs from position n on that are enumerable and not in seen
RECURSIVE Enumerable(_, _, _)
Enumerable(pairs, n, seen) ==
    IF n > Len(pairs) THEN <<>>
    ELSE IF pairs[n][1] \in seen \cup PrototypeFunctions
    THEN Enumerable(pairs, n + 1, seen)
    ELSE <<pairs[n][1]>> \o Enumerable(pairs, n + 1, seen)

(* for (const context in phrases) (i18n.ts:344): the own properties in       *)
(* order, then the enumerable ones of Object.prototype not shadowed, as they *)
(* are when the loop starts                                                  *)
ForIn(heap, phrases) ==
    [i \in 1..Len(phrases.v) |-> phrases.v[i][1]]
    \o Enumerable(heap.prototype.v, 1, {phrases.v[i][1] : i \in 1..Len(phrases.v)})

\* phrases[context] (i18n.ts:351) for a context the loop has enumerated
Value(heap, phrases, context) ==
    IF OwnIndex(phrases.v, context) # 0
    THEN phrases.v[OwnIndex(phrases.v, context)][2]
    ELSE heap.prototype.v[OwnIndex(heap.prototype.v, context)][2]

\* The state of the inner loop of i18n.ts:355-364: the heap and newTargets
Contexted(heap, newTargets) == [heap |-> heap, newTargets |-> newTargets]

\* One iteration of i18n.ts:355-364 for target with contextedTarget read
PushTarget(loop, target, context, contextedTarget) ==
    IF contextedTarget.t = "TypeError"
    THEN Contexted([loop.heap EXCEPT !.threw = TRUE], loop.newTargets)
    ELSE IF ~isPhrases(contextedTarget)
    THEN Contexted(Write(loop.heap, target, context, ObjectLiteral(<<>>)),
                   Append(loop.newTargets, Ref(target.root, Append(target.path, context))))
    ELSE IF contextedTarget.t = "null"
    THEN Contexted(loop.heap, Append(loop.newTargets, NullRef))
    ELSE Contexted(loop.heap, Append(loop.newTargets, contextedTarget.v))

\* for (const target of targets) of i18n.ts:355-364, from targets[j] on
RECURSIVE NewTargets(_, _, _, _)
NewTargets(loop, targets, context, j) ==
    IF loop.heap.threw \/ j > Len(targets) THEN loop
    ELSE NewTargets(PushTarget(loop, targets[j], context,
                               Read(loop.heap, targets[j], context)),
                    targets, context, j + 1)

\* for (const target of targets) of i18n.ts:367-369, from targets[j] on
RECURSIVE AssignAll(_, _, _, _, _)
AssignAll(heap, targets, context, value, j) ==
    IF heap.threw \/ j > Len(targets) THEN heap
    ELSE AssignAll(Write(heap, targets[j], context, value), targets, context, value, j + 1)

RECURSIVE mergePhrasesFrom(_, _, _, _, _)
RECURSIVE MergeContext(_, _, _, _)

\* mergePhrases(targets, phrases) on the heap
mergePhrases(heap, targets, phrases) ==
    mergePhrasesFrom(heap, targets, phrases, ForIn(heap, phrases), 1)

\* mergePhrases(newTargets, value) (i18n.ts:365) after the loop that made newTargets
MergeInto(loop, value) ==
    IF loop.heap.threw THEN loop.heap
    ELSE mergePhrases(loop.heap, loop.newTargets, value)

\* The body of the loop of i18n.ts:344-371 for one context
MergeContext(heap, targets, context, value) ==
    IF ~VALID_KEY_CONTEXT(context) THEN [heap EXCEPT !.threw = TRUE]
    ELSE IF isPhrases(value)
    THEN MergeInto(NewTargets(Contexted(heap, <<>>), targets, context, 1), value)
    ELSE AssignAll(heap, targets, context, value, 1)

\* The loop of i18n.ts:344-371 from contexts[i] on
mergePhrasesFrom(heap, targets, phrases, contexts, i) ==
    IF heap.threw \/ i > Len(contexts) THEN heap
    ELSE mergePhrasesFrom(
             MergeContext(heap, targets, contexts[i], Value(heap, phrases, contexts[i])),
             targets, phrases, contexts, i + 1)

-----------------------------------------------------------------------------
(* mergePhrases: inputs and the call *)

\* The most targets one call is passed
MaxTargets == 2

\* The phrases merged, by position
SourcePool == <<
    \* the test 'merges phrases together'
    ObjectLiteral(<<
        <<<<"k","e","y">>, JSString(<<"v","a","l","u","e">>)>>,
        <<<<"f","o","o">>, ObjectLiteral(<<
            <<<<"b","a","r">>, JSString(<<"b","a","z">>)>> >>)>> >>),
    \* the test 'overwrites objects with strings'
    ObjectLiteral(<<
        <<<<"f","o","o">>, JSString(<<"b","a","r">>)>> >>),
    \* the test 'overwrites strings with objects'
    ObjectLiteral(<<
        <<<<"f","o","o">>, ObjectLiteral(<<
            <<<<"b","a","r">>, JSString(<<"b","a","z">>)>> >>)>> >>),
    \* a sub-tree in a sub-tree
    ObjectLiteral(<<
        <<<<"f","o","o">>, ObjectLiteral(<<
            <<<<"b","a","r">>, ObjectLiteral(<<
                <<<<"b","a","z">>, JSString(<<"d","e","e","p">>)>> >>)>> >>)>>,
        <<<<"o","t","h","e","r">>, JSString(<<"b">>)>> >>),
    \* the test 'throws on invalid key name'
    ObjectLiteral(<<
        <<<<"i","n","v","a","l","i","d","$">>, JSString(<<>>)>> >>),
    \* an invalid context after a valid one, in a sub-tree
    ObjectLiteral(<<
        <<<<"k","e","y">>, JSString(<<"v","a","l","u","e">>)>>,
        <<<<"f","o","o">>, ObjectLiteral(<<
            <<<<"b","a","r">>, JSString(<<"b","a","z">>)>>,
            <<<<"i","n","v","a","l","i","d","$">>, JSString(<<>>)>> >>)>>,
        <<<<"o","t","h","e","r">>, JSString(<<"b">>)>> >>),
    \* JSON.parse('{"__proto__":"x"}')
    ObjectLiteral(<<
        <<<<"_","_","p","r","o","t","o","_","_">>, JSString(<<"x">>)>> >>),
    \* JSON.parse('{"__proto__":{"bar":"v"},"foo":{"key":"w"}}')
    ObjectLiteral(<<
        <<<<"_","_","p","r","o","t","o","_","_">>, ObjectLiteral(<<
            <<<<"b","a","r">>, JSString(<<"v">>)>> >>)>>,
        <<<<"f","o","o">>, ObjectLiteral(<<
            <<<<"k","e","y">>, JSString(<<"w">>)>> >>)>> >>),
    \* no phrases
    ObjectLiteral(<<>>)
>>

\* The targets merged into, by position
TargetPool == <<
    \* target = {} of beforeEach
    ObjectLiteral(<<>>),
    \* the test 'merges phrases together'
    ObjectLiteral(<<
        <<<<"o","t","h","e","r">>, JSString(<<"a">>)>> >>),
    \* the test 'overwrites objects with strings'
    ObjectLiteral(<<
        <<<<"f","o","o">>, ObjectLiteral(<<
            <<<<"b","a","r">>, JSString(<<"b","a","z">>)>> >>)>>,
        <<<<"o","t","h","e","r">>, JSString(<<"a">>)>> >>),
    \* the test 'overwrites strings with objects'
    ObjectLiteral(<<
        <<<<"f","o","o">>, JSString(<<"b","a","r">>)>>,
        <<<<"o","t","h","e","r">>, JSString(<<"a">>)>> >>),
    \* a sub-tree with siblings of the merged key
    ObjectLiteral(<<
        <<<<"f","o","o">>, ObjectLiteral(<<
            <<<<"b","a","r">>, JSString(<<"o","l","d">>)>>,
            <<<<"b","a","z">>, JSString(<<"k","e","e","p">>)>> >>)>> >>)
>>

\* The targets arrays passed: zero or more objects of the pool
TargetLists ==
    UNION {[1..n -> 1..Len(TargetPool)] : n \in 0..MaxTargets}

InitMerge ==
    /\ pc = "start"
    /\ \E s \in 1..Len(SourcePool), ts \in TargetLists :
        /\ mergeSource = SourcePool[s]
        /\ mergeTargets = [i \in 1..Len(ts) |-> TargetPool[ts[i]]]
        /\ mergeBefore = [targets |-> [i \in 1..Len(ts) |-> TargetPool[ts[i]]],
                          phrases |-> SourcePool[s]]
    /\ objectPrototype = ObjectLiteral(<<>>)
    /\ mergeThrew = FALSE
    /\ IdleExceptMerge

\* The heap a call starts on
Heap == [targets |-> mergeTargets, prototype |-> objectPrototype, threw |-> FALSE]

\* The targets array passed: a reference to each object
Targets == [i \in 1..Len(mergeTargets) |-> Ref(i, <<>>)]

\* The heap the call mergePhrases(targets, phrases) leaves
Merged == mergePhrases(Heap, Targets, mergeSource)

\* mergePhrases(targets, phrases) returns
MergePhrasesReturn ==
    /\ pc = "start"
    /\ ~Merged.threw
    /\ pc' = "done"
    /\ mergeTargets' = Merged.targets
    /\ objectPrototype' = Merged.prototype
    /\ UNCHANGED <<mergeSource, mergeBefore, mergeThrew>>
    /\ UNCHANGED exceptMerge

\* mergePhrases(targets, phrases) throws, leaving what it has merged so far
MergePhrasesThrow ==
    /\ pc = "start"
    /\ Merged.threw
    /\ pc' = "done"
    /\ mergeTargets' = Merged.targets
    /\ objectPrototype' = Merged.prototype
    /\ mergeThrew' = TRUE
    /\ UNCHANGED <<mergeSource, mergeBefore>>
    /\ UNCHANGED exceptMerge

NextMerge == MergePhrasesReturn \/ MergePhrasesThrow

SpecMerge == InitMerge /\ [][NextMerge]_vars

-----------------------------------------------------------------------------
(* mergePhrases: source shape and frame *)

\* The paths of own properties of obj, each a sequence of contexts
RECURSIVE PathsOf(_)
PathsOf(obj) ==
    UNION {{<<obj.v[i][1]>>}
           \cup (IF obj.v[i][2].t = "object"
                 THEN {<<obj.v[i][1]>> \o p : p \in PathsOf(obj.v[i][2])}
                 ELSE {})
           : i \in 1..Len(obj.v)}

\* What value holds along the own properties path[n..], undefined when nothing
RECURSIVE OwnAt(_, _, _)
OwnAt(value, path, n) ==
    IF n > Len(path) THEN value
    ELSE IF value.t # "object" \/ OwnIndex(value.v, path[n]) = 0 THEN JSUndefined
    ELSE OwnAt(value.v[OwnIndex(value.v, path[n])][2], path, n + 1)

\* target holds at path what the source holds there: its string, or a sub-tree
ShapeOf(source, target) ==
    IF source.t = "string"
    THEN target.t = "string" /\ target.v = source.v
    ELSE target.t = "object"

\* C16: after mergePhrases returns, every target holds at every path of the
\* source the leaf string the source holds there, or a sub-tree where the
\* source holds a sub-tree, whatever the target held at the path before.
C16_SourceShapeWins ==
    (pc = "done" /\ ~mergeThrew) =>
        \A i \in 1..Len(mergeTargets) : \A p \in PathsOf(mergeSource) :
            ShapeOf(OwnAt(mergeSource, p, 1), OwnAt(mergeTargets[i], p, 1))

\* The source holds nothing at path and no leaf string above it
Untouched(path) ==
    /\ path \notin PathsOf(mergeSource)
    /\ \A n \in 1..(Len(path) - 1) :
           OwnAt(mergeSource, SubSeq(path, 1, n), 1).t # "string"

\* The entry is what it was: the same string, or still a sub-tree
SameEntry(before, after) ==
    /\ after.t = before.t
    /\ before.t = "string" => after.v = before.v

\* C17: after mergePhrases, every entry of every target at a path the source
\* does not hold (and that no leaf string of the source replaced from above)
\* is what it was before the call, and the source is what was passed.
C17_FrameAndSource ==
    pc = "done" =>
        /\ mergeSource = mergeBefore.phrases
        /\ \A i \in 1..Len(mergeTargets) :
               \A p \in PathsOf(mergeBefore.targets[i]) :
                   Untouched(p) =>
                       SameEntry(OwnAt(mergeBefore.targets[i], p, 1),
                                 OwnAt(mergeTargets[i], p, 1))

-----------------------------------------------------------------------------
(* The Mnoga class (index.ts:29-334) *)

DEFAULT_LOCALE == L_en

\* Mutation of includes: every element has to be the value
includes_Every(arr, val) == \A i \in 1..Len(arr) : arr[i] = val

\* includes(arr, val): arr.some((v) => v === val)
includes(arr, val) == \E i \in 1..Len(arr) : arr[i] = val

\* Whether getCanonicalLocales(locale) throws
CanonicalThrows(locale) == \E i \in 1..Len(locale) : Throws(locale[i])

\* lookup[l], undefined when l is no property of lookup
Lookup(lookup, l) ==
    IF OwnIndex(lookup, l) = 0 THEN JSUndefined ELSE lookup[OwnIndex(lookup, l)][2]

\* lookup after lookup[l] = value
Assign(lookup, l, value) ==
    IF OwnIndex(lookup, l) # 0
    THEN [lookup EXCEPT ![OwnIndex(lookup, l)] = <<l, value>>]
    ELSE Append(lookup, <<l, value>>)

\* lookup after delete lookup[l]
Delete(lookup, l) == SelectSeq(lookup, LAMBDA pair : pair[1] # l)

\* What locales.map(mapper) has done so far: the lookup and the values returned
Mapped(lookup, changes) == [lookup |-> lookup, changes |-> changes]

\* The mapper of setAlias and setRule (index.ts:129-136, 202-209) on l
SetMapper(m, l, value) ==
    IF OwnIndex(m.lookup, l) = 0 \/ m.lookup[OwnIndex(m.lookup, l)][2] # value
    THEN Mapped(Assign(m.lookup, l, value), Append(m.changes, TRUE))
    ELSE Mapped(m.lookup, Append(m.changes, FALSE))

RECURSIVE SetFrom(_, _, _, _)
SetFrom(m, locales, value, i) ==
    IF i > Len(locales) THEN m
    ELSE SetFrom(SetMapper(m, locales[i], value), locales, value, i + 1)

\* The mapper of deleteFrom (index.ts:319-326) on l
DeleteMapper(m, l) ==
    IF OwnIndex(m.lookup, l) # 0
    THEN Mapped(Delete(m.lookup, l), Append(m.changes, TRUE))
    ELSE Mapped(m.lookup, Append(m.changes, FALSE))

RECURSIVE DeleteFromIndex(_, _, _)
DeleteFromIndex(m, locales, i) ==
    IF i > Len(locales) THEN m
    ELSE DeleteFromIndex(DeleteMapper(m, locales[i]), locales, i + 1)

\* deleteFrom(locale, lookup) once the locales are canonical
deleteFrom(locales, lookup) == DeleteFromIndex(Mapped(lookup, <<>>), locales, 1)

\* hasPhrasesForLocale(locale) (index.ts:84-87)
hasPhrasesForLocale(phrases, locale) ==
    isPhrases(Lookup(phrases, getCanonicalLocale(locale)))

\* Whether clonePhrases(phrases) throws (index.ts:297-315)
RECURSIVE ClonePhrasesThrows(_)
ClonePhrasesThrows(phrases) ==
    \E i \in 1..Len(phrases.v) :
        \/ ~VALID_KEY_CONTEXT(phrases.v[i][1])
        \/ isPhrases(phrases.v[i][2]) /\ ClonePhrasesThrows(phrases.v[i][2])

\* Object.keys(lookup)
Keys(lookup) == [i \in 1..Len(lookup) |-> lookup[i][1]]

\* Whether setAlias throws once its arguments are canonical (index.ts:117-127)
SetAliasRejects(aliasesNow, phrases, als, normalizedLocale) ==
    \/ OwnIndex(aliasesNow, normalizedLocale) # 0
    \/ includes(als, normalizedLocale)
    \/ \E i \in 1..Len(als) : hasPhrasesForLocale(phrases, als[i])

-----------------------------------------------------------------------------
(* Calls on one Mnoga object *)

\* The most calls made on the object, subscribe apart
MaxCalls == 3

\* The most handlers subscribed
MaxSubscribers == 2

L_enAU == <<"e","n","-","A","U">>
L_ENgb == <<"E","N","-","g","b">>
INVALID_LOCALE ==
    <<"b","o","g","u","s","-","l","a","n","g","u","a","g","e","-","t","a","g">>

\* A locale argument
MnogaLocales == {L_en, L_enAU, L_ENgb, INVALID_LOCALE}

\* A locale or list of locales argument, a single locale as the list of it
MnogaLocaleLists ==
    {<<L_en>>, <<L_enAU>>, <<INVALID_LOCALE>>, <<L_enAU, L_ENgb>>}

\* The rule argument of setRule
RuleArguments == {"other"}

\* The phrases argument of setPhrases, by position in SourcePool
PhrasesArguments == {1, 5, 6}

InitMnoga ==
    /\ pc = "constructed"
    /\ thisAliases = <<>>
    /\ thisFallback = DEFAULT_LOCALE
    /\ thisKeyMode = FALSE
    /\ thisLocale = Undefined
    /\ thisPhrases = <<>>
    /\ thisRules = DefaultRules
    /\ subscribers = <<>>
    /\ invocations = <<>>
    /\ unsubscribes = {}
    /\ arguments = <<>>
    /\ lastThrew = FALSE
    /\ calls = 0
    /\ IdleExceptMnoga

\* subscriber(): the handler named subscriber calls subscribe(added), every
\* other handler returns
Invoke(handler, list) ==
    IF handler = "subscriber" THEN Append(list, "added") ELSE list

\* The list and the counts after currentSubscribers[i] has been called
Invoked(currentSubscribers, pass, i) ==
    [subscribers |-> Invoke(currentSubscribers[i], pass.subscribers),
     invocations |->
         [k \in 1..Len(Invoke(currentSubscribers[i], pass.subscribers)) |->
             IF k > Len(pass.invocations) THEN 0
             ELSE IF k = i THEN pass.invocations[k] + 1
             ELSE pass.invocations[k]]]

\* currentSubscribers.forEach((subscriber) => subscriber()), from entry i on
RECURSIVE ForEachSubscriber(_, _, _)
ForEachSubscriber(currentSubscribers, pass, i) ==
    IF i > Len(currentSubscribers) THEN pass
    ELSE ForEachSubscriber(currentSubscribers, Invoked(currentSubscribers, pass, i), i + 1)

\* No handler has been called yet
NotInvoked(list) == [subscribers |-> list, invocations |-> [k \in 1..Len(list) |-> 0]]

\* Mutation of callSubscribers: the pass runs over the list as it grows
RECURSIVE ForEachLive(_, _)
ForEachLive(pass, i) ==
    IF i > Len(pass.subscribers) THEN pass
    ELSE ForEachLive(Invoked(pass.subscribers, pass, i), i + 1)

callSubscribers_Live(list) == ForEachLive(NotInvoked(list), 1)

\* callSubscribers(): the pass over a copy of this.subscribers (index.ts:286-291)
callSubscribers(list) == ForEachSubscriber(list, NotInvoked(list), 1)

\* if (hasChanges) { this.callSubscribers(); }
CallSubscribers(hasChanges) ==
    /\ subscribers' =
           IF hasChanges THEN callSubscribers(subscribers).subscribers ELSE subscribers
    /\ invocations' =
           IF hasChanges THEN callSubscribers(subscribers).invocations
           ELSE NotInvoked(subscribers).invocations

\* A call of method is made
Call(method) ==
    /\ calls < MaxCalls
    /\ calls' = calls + 1
    /\ pc' = method
    /\ UNCHANGED unsubscribes
    /\ UNCHANGED exceptMnoga

\* The call throws before it has changed anything
Throw ==
    /\ lastThrew' = TRUE
    /\ CallSubscribers(FALSE)
    /\ UNCHANGED storedVars

\* What setAlias has done when it returns or throws
Outcome(threw, m) == [threw |-> threw, lookup |-> m.lookup, changes |-> m.changes]

\* Mutation of SetAliasOutcome: each alias is checked for phrases as it is mapped
RECURSIVE SetAliasEach(_, _, _, _, _)
SetAliasEach(m, phrases, als, normalizedLocale, i) ==
    IF i > Len(als) THEN Outcome(FALSE, m)
    ELSE IF hasPhrasesForLocale(phrases, als[i]) THEN Outcome(TRUE, m)
    ELSE SetAliasEach(SetMapper(m, als[i], normalizedLocale), phrases, als,
                      normalizedLocale, i + 1)

SetAliasOutcome_CheckedWhileMapped(aliasesNow, phrases, als, normalizedLocale) ==
    IF OwnIndex(aliasesNow, normalizedLocale) # 0 \/ includes(als, normalizedLocale)
    THEN Outcome(TRUE, Mapped(aliasesNow, <<>>))
    ELSE SetAliasEach(Mapped(aliasesNow, <<>>), phrases, als, normalizedLocale, 1)

\* setAlias once its arguments are canonical: the checks of index.ts:116-127,
\* then aliases.map(mapper) of lines 129-138
SetAliasOutcome(aliasesNow, phrases, als, normalizedLocale) ==
    IF SetAliasRejects(aliasesNow, phrases, als, normalizedLocale)
    THEN Outcome(TRUE, Mapped(aliasesNow, <<>>))
    ELSE Outcome(FALSE, SetFrom(Mapped(aliasesNow, <<>>), als, normalizedLocale, 1))

\* setAlias(alias, locale) with the outcome m of the checks and of the mapping
SetAliasMapped(m) ==
    /\ thisAliases' = m.lookup
    /\ lastThrew' = m.threw
    /\ CallSubscribers(~m.threw /\ includes(m.changes, TRUE))

SetAlias ==
    /\ Call("setAlias")
    /\ \E alias \in MnogaLocaleLists, locale \in MnogaLocales :
        /\ arguments' = <<alias, locale>>
        /\ IF CanonicalThrows(alias) \/ Throws(locale) THEN Throw
           ELSE /\ SetAliasMapped(SetAliasOutcome(thisAliases, thisPhrases,
                                                  getCanonicalLocales(alias),
                                                  getCanonicalLocale(locale)))
                /\ UNCHANGED <<thisFallback, thisKeyMode, thisLocale, thisPhrases, thisRules>>

\* deleteFrom(locale, this.aliases) with the locales mapped
DeleteAliasMapped(m) ==
    /\ thisAliases' = m.lookup
    /\ CallSubscribers(includes(m.changes, TRUE))

DeleteAlias ==
    /\ Call("deleteAlias")
    /\ \E locale \in MnogaLocaleLists :
        /\ arguments' = <<locale>>
        /\ IF CanonicalThrows(locale) THEN Throw
           ELSE /\ DeleteAliasMapped(deleteFrom(getCanonicalLocales(locale), thisAliases))
                /\ lastThrew' = FALSE
                /\ UNCHANGED <<thisFallback, thisKeyMode, thisLocale, thisPhrases, thisRules>>

\* deleteFrom(locale, this.rules) with the locales mapped
DeleteRuleMapped(m) ==
    /\ thisRules' = m.lookup
    /\ CallSubscribers(includes(m.changes, TRUE))

DeleteRule ==
    /\ Call("deleteRule")
    /\ \E locale \in MnogaLocaleLists :
        /\ arguments' = <<locale>>
        /\ IF CanonicalThrows(locale) THEN Throw
           ELSE /\ DeleteRuleMapped(deleteFrom(getCanonicalLocales(locale), thisRules))
                /\ lastThrew' = FALSE
                /\ UNCHANGED <<thisAliases, thisFallback, thisKeyMode, thisLocale, thisPhrases>>

\* deleteFrom(locale, this.phrases) with the locales mapped
DeletePhrasesMapped(m) ==
    /\ thisPhrases' = m.lookup
    /\ CallSubscribers(includes(m.changes, TRUE))

DeletePhrases ==
    /\ Call("deletePhrases")
    /\ \E locale \in MnogaLocaleLists :
        /\ arguments' = <<locale>>
        /\ IF CanonicalThrows(locale) THEN Throw
           ELSE /\ DeletePhrasesMapped(deleteFrom(getCanonicalLocales(locale), thisPhrases))
                /\ lastThrew' = FALSE
                /\ UNCHANGED <<thisAliases, thisFallback, thisKeyMode, thisLocale, thisRules>>

SetFallback ==
    /\ Call("setFallback")
    /\ \E fallback \in MnogaLocales :
        /\ arguments' = <<fallback>>
        /\ IF Throws(fallback) THEN Throw
           ELSE /\ thisFallback' = getCanonicalLocale(fallback)
                /\ CallSubscribers(thisFallback # getCanonicalLocale(fallback))
                /\ lastThrew' = FALSE
                /\ UNCHANGED <<thisAliases, thisKeyMode, thisLocale, thisPhrases, thisRules>>

SetKeyMode ==
    /\ Call("setKeyMode")
    /\ \E toggle \in BOOLEAN :
        /\ arguments' = <<toggle>>
        /\ thisKeyMode' = toggle
        /\ CallSubscribers(thisKeyMode # toggle)
        /\ lastThrew' = FALSE
        /\ UNCHANGED <<thisAliases, thisFallback, thisLocale, thisPhrases, thisRules>>

\* Mutation of SetLocaleMatched: the locale is kept when nothing matches
SetLocaleMatched_KeptWhenUnmatched(matchedLocale) ==
    /\ thisLocale' = (IF matchedLocale = Undefined THEN thisLocale ELSE matchedLocale)
    /\ CallSubscribers(matchedLocale # Undefined /\ matchedLocale # thisLocale)

\* setLocale(locale) with lookupLocale having returned matchedLocale
SetLocaleMatched(matchedLocale) ==
    /\ thisLocale' = matchedLocale
    /\ CallSubscribers(matchedLocale # thisLocale)

SetLocale ==
    /\ Call("setLocale")
    /\ \E locale \in MnogaLocaleLists :
        /\ arguments' = <<locale>>
        /\ IF lookupLocaleThrows(locale, Keys(thisPhrases), thisAliases) THEN Throw
           ELSE /\ SetLocaleMatched(lookupLocaleReturn(
                        lookupLocaleLocals(locale, Keys(thisPhrases), thisAliases)))
                /\ lastThrew' = FALSE
                /\ UNCHANGED <<thisAliases, thisFallback, thisKeyMode, thisPhrases, thisRules>>

\* getLocale(): this.locale || this.fallback (index.ts:80-82)
getLocale(locale, fallback) ==
    IF locale = Undefined \/ locale = <<>> THEN fallback ELSE locale

\* setRule(locale, rule) with the locales mapped
SetRuleMapped(m) ==
    /\ thisRules' = m.lookup
    /\ CallSubscribers(includes(m.changes, TRUE))

SetRule ==
    /\ Call("setRule")
    /\ \E locale \in MnogaLocaleLists, rule \in RuleArguments :
        /\ arguments' = <<locale, rule>>
        /\ IF CanonicalThrows(locale) THEN Throw
           ELSE /\ SetRuleMapped(SetFrom(Mapped(thisRules, <<>>),
                                         getCanonicalLocales(locale), JSFunction(rule), 1))
                /\ lastThrew' = FALSE
                /\ UNCHANGED <<thisAliases, thisFallback, thisKeyMode, thisLocale, thisPhrases>>

\* locales.forEach((l) => { this.phrases[l] = clonedPhrases; }) from locales[i] on
RECURSIVE AssignEach(_, _, _, _)
AssignEach(lookup, locales, value, i) ==
    IF i > Len(locales) THEN lookup
    ELSE AssignEach(Assign(lookup, locales[i], value), locales, value, i + 1)

SetPhrases ==
    /\ Call("setPhrases")
    /\ \E locale \in MnogaLocaleLists, p \in PhrasesArguments :
        /\ arguments' = <<locale, SourcePool[p]>>
        /\ IF CanonicalThrows(locale) \/ ClonePhrasesThrows(SourcePool[p]) THEN Throw
           ELSE /\ thisPhrases' = AssignEach(thisPhrases, getCanonicalLocales(locale),
                                             SourcePool[p], 1)
                /\ CallSubscribers(TRUE)
                /\ lastThrew' = FALSE
                /\ UNCHANGED <<thisAliases, thisFallback, thisKeyMode, thisLocale, thisRules>>

\* this.subscribers.push(handler) (index.ts:243)
SubscribeHandler(handler) ==
    /\ Len(subscribers) < MaxSubscribers
    /\ pc' = "subscribe"
    /\ arguments' = <<handler>>
    /\ subscribers' = Append(subscribers, handler)
    /\ invocations' = [i \in 1..(Len(subscribers) + 1) |-> 0]
    /\ unsubscribes' = unsubscribes \cup {handler}
    /\ lastThrew' = FALSE
    /\ UNCHANGED <<storedVars, calls>>
    /\ UNCHANGED exceptMnoga

\* subscribe(handler) with a handler that returns when called
Subscribe == SubscribeHandler("handler")

NextMnoga ==
    \/ SetAlias \/ DeleteAlias \/ DeleteRule \/ DeletePhrases \/ SetFallback
    \/ SetKeyMode \/ SetLocale \/ SetRule \/ SetPhrases \/ Subscribe

SpecMnoga == InitMnoga /\ [][NextMnoga]_vars

-----------------------------------------------------------------------------
(* Mnoga: aliases, phrases and notifications *)

\* C18: in every state reached by calls on a Mnoga object, no locale that is an
\* alias key is also an alias target, its own included.
C18_NoKeyIsTarget ==
    \A i \in 1..Len(thisAliases) : \A j \in 1..Len(thisAliases) :
        thisAliases[i][1] # thisAliases[j][2]

\* C19: in every state reached by calls on a Mnoga object, no locale that has
\* phrases registered is also an alias key.
C19_NoPhrasesOnAlias ==
    \A i \in 1..Len(thisAliases) : OwnIndex(thisPhrases, thisAliases[i][1]) = 0

\* The methods that notify only when they change what is stored
NotifyOnChange ==
    {"setAlias", "setFallback", "setKeyMode", "setLocale", "setRule",
     "deleteAlias", "deleteRule", "deletePhrases"}

\* C20: a call of setAlias, setFallback, setKeyMode, setLocale, setRule,
\* deleteAlias, deleteRule or deletePhrases invokes every subscribed handler
\* exactly once when it changes what the object stores, and invokes none when
\* it leaves it as it was.
C20_NotifiedOncePerChange ==
    [][pc' \in NotifyOnChange =>
          /\ Len(invocations') = Len(subscribers)
          /\ \A i \in 1..Len(subscribers) :
                 invocations'[i] = (IF storedVars' # storedVars THEN 1 ELSE 0)]_vars

\* One setAlias call has aliased two locales and both handlers were invoked once
C20_Witness ==
    /\ pc = "setAlias"
    /\ calls = 1
    /\ Len(thisAliases) = 2
    /\ Len(subscribers) = 2
    /\ invocations = <<1, 1>>

-----------------------------------------------------------------------------
(* Plural rules called on their own (pluralization.ts:29-112) *)

\* The largest count a rule is called with, and the smallest negated
MaxCount == 210

InitRule ==
    /\ pc = "start"
    /\ ruleArgument \in (0 - MaxCount)..MaxCount
    /\ ruleResult = <<>>
    /\ IdleExceptRule

\* arabic(n) returns
Arabic ==
    /\ pc = "start"
    /\ pc' = "done"
    /\ ruleResult' = arabic(ruleArgument)
    /\ UNCHANGED ruleArgument
    /\ UNCHANGED exceptRule

NextRule == Arabic

SpecRule == InitRule /\ [][NextRule]_vars

\* The six plural categories
PluralCategory == {Zero, One, Two, Few, Many, Other}

\* The category for a count that is not negative, by its ranges
ArabicRanges(n) ==
    IF n = 0 THEN Zero
    ELSE IF n = 1 THEN One
    ELSE IF n = 2 THEN Two
    ELSE IF n % 100 \in 3..10 THEN Few
    ELSE IF n % 100 \in 11..99 THEN Many
    ELSE Other

\* C24: arabic(n) is zero, one, two for n = 0, 1, 2, few for n mod 100 in 3..10,
\* many for n mod 100 in 11..99 and other for the remaining n >= 0; for every
\* integer it is one of the six categories.
C24_ArabicRanges ==
    pc = "done" =>
        /\ ruleResult \in PluralCategory
        /\ ruleArgument >= 0 => ruleResult = ArabicRanges(ruleArgument)

\* arabic(110) has returned few
C24_Witness ==
    /\ pc = "done"
    /\ ruleArgument = 110
    /\ ruleResult = Few

-----------------------------------------------------------------------------
(* lookupLocale on aliased candidates: a second set of arguments *)

T_abcUS == <<"[","a","b","c","]","-","U","S">>
T_zhyue == <<"z","h","-","y","u","e">>
T_abc == <<"[","a","b","c","]">>

CandidatePool == {T_zhHantHK, T_zh, T_zha, T_abcUS, T_bogus}
CandidateSupportedPool == <<T_zhHant, T_zh, T_zhyue, T_abc>>
CandidateAliasPool ==
    { <<>>,
      << <<T_zh, T_zhHant>> >>,
      << <<T_zhHant, T_zhyue>> >>,
      << <<T_zh, T_zhHant>>, <<T_zhHant, T_zhyue>> >> }

CandidateLists == UNION {[1..n -> CandidatePool] : n \in 1..MaxPreferred}

CandidateSupportedLists ==
    {SelectSeq(CandidateSupportedPool, LAMBDA t : t \in chosen) :
        chosen \in {c \in SUBSET Range(CandidateSupportedPool) : Cardinality(c) <= MaxSupported}}

InitCandidates ==
    /\ pc = "start"
    /\ preferredLocales \in CandidateLists
    /\ supportedLocales \in CandidateSupportedLists
    /\ aliases \in CandidateAliasPool
    /\ locals = NoLocals
    /\ localeResult = [threw |-> FALSE, value |-> Undefined]
    /\ IdleExceptLocale

SpecCandidates == InitCandidates /\ [][NextLocale]_vars

\* Whether s occurs in str as a run of consecutive characters
IsSubstring(s, str) ==
    \E i \in 1..(Len(str) - Len(s) + 1) : SubSeq(str, i, i + Len(s) - 1) = s

\* The candidates the claim lists for preferred entry i
ClaimedEntry(n, i) ==
    <<n[i]>> \o
    SelectSeq(Tail(getFallbackPattern(n[i])),
              LAMBDA s : /\ \A j \in DOMAIN n : n[j] # s
                         /\ ~(i < Len(n) /\ IsSubstring(s, n[i + 1])))

RECURSIVE ClaimedFrom(_, _)
ClaimedFrom(n, i) ==
    IF i > Len(n) THEN <<>> ELSE ClaimedEntry(n, i) \o ClaimedFrom(n, i + 1)

\* The alias image of candidate l: its alias if it has one, else itself
AliasImage(l) ==
    IF \E k \in DOMAIN aliases : getCanonicalLocale(aliases[k][1]) = l
    THEN getCanonicalLocale(
             aliases[CHOOSE k \in DOMAIN aliases : getCanonicalLocale(aliases[k][1]) = l][2])
    ELSE l

\* The first candidate of the sequence c whose alias image is supported
FirstSupportedImage(c) ==
    LET hits == {k \in DOMAIN c : AliasImage(c[k]) \in CanonicalSupported}
    IN  IF hits = {} THEN Undefined
        ELSE AliasImage(c[CHOOSE k \in hits : \A h \in hits : k <= h])

\* C25: the candidate sequence of lookupLocale is each canonical preferred entry
\* followed by the members of its fallback chain that are neither listed in
\* preferred nor a substring of the next preferred entry, and the result is the
\* first candidate whose alias image is supported.
C25_CandidateSequence ==
    Returned =>
        /\ locals.possibleLocales = ClaimedFrom(locals.normalizedPreferredlocales, 1)
        /\ localeResult.value = FirstSupportedImage(locals.possibleLocales)

\* C26: every candidate is swapped for its alias once and the alias of an alias
\* is never followed: the result is the single alias image of the first
\* candidate whose single image is supported.  With {zh -> zh-Hant, zh-Hant ->
\* zh-yue} and only zh-yue supported, [zh] resolves to undefined; with zh-Hant
\* -> zh-yue and zh-yue supported, [zh-Hant-HK] resolves to zh-yue.
C26_AliasAppliedOnce ==
    Returned =>
        /\ localeResult.value = FirstSupportedImage(locals.possibleLocales)
        /\ (/\ preferredLocales = <<T_zh>>
            /\ aliases = << <<T_zh, T_zhHant>>, <<T_zhHant, T_zhyue>> >>
            /\ supportedLocales = <<T_zhyue>>) => localeResult.value = Undefined
        /\ (/\ preferredLocales = <<T_zhHantHK>>
            /\ aliases = << <<T_zhHant, T_zhyue>> >>
            /\ supportedLocales = <<T_zhyue>>) => localeResult.value = T_zhyue

\* C26 witness: the alias of the only candidate has itself a supported alias,
\* and nothing is returned.
C26_Witness ==
    /\ Returned
    /\ preferredLocales = <<T_zh>>
    /\ aliases = << <<T_zh, T_zhHant>>, <<T_zhHant, T_zhyue>> >>
    /\ supportedLocales = <<T_zhyue>>
    /\ localeResult.value = Undefined

\* C29: a candidate that is an alias key is tested through its alias target:
\* the result is never a candidate that has an alias different from itself
\* unless it is also the alias image of the selected candidate, and a
\* supported, aliased first candidate gives its supported target, or nothing
\* at that position when the target is not supported.
C29_AliasBeforeSupport ==
    Returned =>
        LET c == locals.possibleLocales
            first == c[1]
        IN  (first \in CanonicalSupported /\ AliasImage(first) # first) =>
                IF AliasImage(first) \in CanonicalSupported
                THEN localeResult.value = AliasImage(first)
                ELSE /\ localeResult.value # first
                     /\ localeResult.value = FirstSupportedImage(Tail(c))

\* C29 witness: zh is supported and aliased to zh-Hant, which is not supported;
\* the only candidate does not match.
C29_Witness ==
    /\ Returned
    /\ preferredLocales = <<T_zh>>
    /\ T_zh \in CanonicalSupported
    /\ AliasImage(T_zh) = getCanonicalLocale(T_zhHant)
    /\ AliasImage(T_zh) \notin CanonicalSupported
    /\ localeResult.value = Undefined

-----------------------------------------------------------------------------
(* Properties of the plural descent of lookupPhrase *)

\* data.count is a number
CountGiven == typeof(Get(options.data, S_count)) = "number"

\* The iteration of currentLocale returned the interpolation of phrase
UsedAs(phrase) ==
    /\ pc = "done"
    /\ ~phraseResult.threw
    /\ loopIndex <= Len(options.locales)
    /\ currentPhrase.t = "string"
    /\ currentPhrase.v = phrase.v
    /\ phraseResult.value = Interpolate(phrase.v, options.data)

\* The iteration of currentLocale found nothing: the loop moved on to the next
\* index, or past the last one to the return of the key
NotFoundHere ==
    /\ ~phraseResult.threw
    /\ loopIndex >= 2
    /\ options.locales[loopIndex - 1] = currentLocale
    /\ pc = "done" => (loopIndex > Len(options.locales) /\ phraseResult.value = options.key)

EntryCase(entry) == IF entry.t = "string" THEN UsedAs(entry) ELSE NotFoundHere

DescentCase(walked) ==
    /\ (walked.t = "object" /\ CountGiven) => EntryCase(Get(walked, pluralContext))
    /\ walked.t = "string" => UsedAs(walked)

\* C27: after the iteration of a locale, if the walk of the key landed on a
\* sub-tree and data.count is a number, the iteration returned the entry of the
\* sub-tree named by the rule's category when that entry is a string, and
\* otherwise (entry missing or a sub-tree) found nothing and the loop moved on;
\* if the walk landed on a string, the iteration returned it, count or not.
C27_PluralDescent ==
    (pc \in {"loop", "done"} /\ currentLocale # Undefined)
        => DescentCase(WalkKey(options, currentLocale))

\* C27 witness: with a count, the first locale's walk landed on a sub-tree
\* whose entry for the category is itself a sub-tree, and the next locale's
\* leaf was returned.
C27_Witness ==
    /\ pc = "done" /\ ~phraseResult.threw
    /\ CountGiven
    /\ loopIndex = 2
    /\ Len(options.locales) = 2
    /\ WalkKey(options, options.locales[1]).t = "object"
    /\ Get(WalkKey(options, options.locales[1]), Other).t = "object"
    /\ WalkKey(options, options.locales[2]).t = "string"
    /\ phraseResult.value = WalkKey(options, options.locales[2]).v

-----------------------------------------------------------------------------
(* Registration of phrases: mergePhrases and Mnoga.setPhrases together *)

InitRegistration == InitMerge \/ InitMnoga

NextRegistration ==
    \/ NextMerge
    \/ pc \notin {"start", "done"} /\ (SetPhrases \/ DeletePhrases \/ SetLocale)

SpecRegistration == InitRegistration /\ [][NextRegistration]_vars

\* key is one or more of the characters A-Z, a-z, 0-9, _ and -
InContextGrammar(key) ==
    /\ key # <<>>
    /\ \A i \in 1..Len(key) : key[i] \in LetterChars \cup DigitChars \cup {"_", "-"}

\* Some key of the tree, at any depth, is outside the grammar
HasInvalidKey(tree) == \E path \in PathsOf(tree) : ~InContextGrammar(path[Len(path)])

\* C28: a mergePhrases call whose source has a key outside [A-Za-z0-9_-]+ at
\* any depth throws, a setPhrases call whose phrases have such a key throws, and
\* no tree with such a key is ever stored under a locale of a Mnoga object.
C28_InvalidKeyFails ==
    /\ (pc = "done" /\ HasInvalidKey(mergeBefore.phrases)) => mergeThrew
    /\ (pc = "setPhrases" /\ HasInvalidKey(arguments[2])) => lastThrew
    /\ \A i \in 1..Len(thisPhrases) : ~HasInvalidKey(thisPhrases[i][2])

\* C28 witness: a source whose only invalid key lies in a sub-tree, after
\* valid keys, was merged into two targets and the call threw.
C28_Witness ==
    /\ pc = "done"
    /\ mergeThrew
    /\ Len(mergeTargets) = 2
    /\ \A i \in 1..Len(mergeBefore.phrases.v) : InContextGrammar(mergeBefore.phrases.v[i][1])
    /\ HasInvalidKey(mergeBefore.phrases)

-----------------------------------------------------------------------------
(* Mnoga: failing setAlias calls and setLocale *)

\* C30: a setAlias call that throws leaves this.aliases as it was before the
\* call, the valid aliases of the same call included, and invokes no
\* subscriber.
C30_FailedSetAliasAtomic ==
    [][(pc' = "setAlias" /\ lastThrew') =>
          /\ thisAliases' = thisAliases
          /\ subscribers' = subscribers
          /\ \A i \in 1..Len(invocations') : invocations'[i] = 0]_vars

\* C30 witness: setAlias([en-AU, EN-gb], en) threw because en-GB has phrases;
\* en-AU has none and is no alias, and the subscriber was not invoked.
C30_Witness ==
    /\ pc = "setAlias"
    /\ lastThrew
    /\ arguments = <<<<L_enAU, L_ENgb>>, L_en>>
    /\ hasPhrasesForLocale(thisPhrases, L_ENgb)
    /\ ~hasPhrasesForLocale(thisPhrases, L_enAU)
    /\ OwnIndex(thisAliases, L_enAU) = 0
    /\ Len(subscribers) >= 1
    /\ \A i \in 1..Len(invocations) : invocations[i] = 0

\* What getLocale() returns after setLocale, matched being what lookupLocale
\* returned for the call's argument
SetLocaleCase(matched) ==
    IF matched = Undefined
    THEN /\ thisLocale = Undefined
         /\ getLocale(thisLocale, thisFallback) = thisFallback
    ELSE /\ getLocale(thisLocale, thisFallback) = matched
         /\ includes(Keys(thisPhrases), matched)

\* C23: after a setLocale call that found no match this.locale is undefined and
\* getLocale() is the fallback; after one that found a match getLocale() is the
\* matched locale, one of the locales with phrases.
C23_UnsetWhenUnmatched ==
    (pc = "setLocale" /\ ~lastThrew) =>
        SetLocaleCase(lookupLocaleReturn(
            lookupLocaleLocals(arguments[1], Keys(thisPhrases), thisAliases)))

\* C23 witness: setLocale found no match and notified the subscriber, so it
\* unset a locale that an earlier call had matched.
C23_Witness ==
    /\ pc = "setLocale"
    /\ ~lastThrew
    /\ thisLocale = Undefined
    /\ thisPhrases # <<>>
    /\ invocations = <<1>>
    /\ getLocale(thisLocale, thisFallback) = DEFAULT_LOCALE

-----------------------------------------------------------------------------
(* Mnoga: subscribing and unsubscribing, also during a notification pass *)

\* arr.indexOf(v): the 0-based index of the first v, -1 when there is none
indexOf(arr, v) ==
    IF \E i \in 1..Len(arr) : arr[i] = v
    THEN (CHOOSE i \in 1..Len(arr) : arr[i] = v /\ \A j \in 1..(i - 1) : arr[j] # v) - 1
    ELSE -1

\* The start of arr.splice(start, ...): a negative start counts from the end
RelativeStart(arr, start) ==
    IF start < 0 THEN (IF Len(arr) + start < 0 THEN 0 ELSE Len(arr) + start)
    ELSE IF start > Len(arr) THEN Len(arr) ELSE start

\* arr after arr.splice(start, deleteCount)
splice(arr, start, deleteCount) ==
    SubSeq(arr, 1, RelativeStart(arr, start))
        \o SubSeq(arr, RelativeStart(arr, start) + deleteCount + 1, Len(arr))

\* subscribe(handler) with the handler that subscribes again when called
SubscribeSubscriber == SubscribeHandler("subscriber")

\* A call of the function subscribe(handler) returned (index.ts:245-248)
Unsubscribe ==
    /\ calls < MaxCalls
    /\ calls' = calls + 1
    /\ pc' = "unsubscribe"
    /\ \E handler \in unsubscribes :
        /\ arguments' = <<handler>>
        /\ subscribers' = splice(subscribers, indexOf(subscribers, handler), 1)
        /\ invocations' =
               NotInvoked(splice(subscribers, indexOf(subscribers, handler), 1)).invocations
    /\ lastThrew' = FALSE
    /\ UNCHANGED <<storedVars, unsubscribes>>
    /\ UNCHANGED exceptMnoga

NextSubscribers == Subscribe \/ SubscribeSubscriber \/ Unsubscribe \/ SetKeyMode

SpecSubscribers == InitMnoga /\ [][NextSubscribers]_vars

\* C21: in a notification pass every entry the list held when the pass
\* started is invoked exactly once, the entries an earlier pass added
\* included, and the entries subscribed during the pass are not invoked.
C21_SnapshotPass ==
    [][(pc' \in NotifyOnChange /\ storedVars' # storedVars) =>
          /\ Len(subscribers') >= Len(subscribers)
          /\ Len(invocations') = Len(subscribers')
          /\ \A k \in 1..Len(subscribers') :
                 /\ k <= Len(subscribers) => subscribers'[k] = subscribers[k]
                 /\ invocations'[k] = (IF k <= Len(subscribers) THEN 1 ELSE 0)]_vars

\* C21 witness: in the second pass the handler that the first pass added was
\* invoked once, and the one this pass added was not invoked.
C21_Witness ==
    /\ pc = "setKeyMode"
    /\ subscribers = <<"subscriber", "added", "added">>
    /\ invocations = <<1, 1, 0>>

\* C22 as stated: a call of an Unsubscribe function whose handler is not in the
\* list removes nothing.
C22_UnsubscribeIdempotent ==
    [][(pc' = "unsubscribe" /\ ~includes(subscribers, arguments'[1]))
          => subscribers' = subscribers]_vars

====
